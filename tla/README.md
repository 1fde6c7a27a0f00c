# TLA+ models of the os212-ass2 kernel core

These are TLC-checked models of the concurrency core of this xv6-riscv
variant:
- processes with up to NTHREAD kernel threads;
- the binary semaphores;
- the signal state machine, which runs on every return to user mode.

Each module is translated from the C sources under `src/`. `PROJECT.json`
maps every modelled definition to the lines it stands for. It also lists
the runs, the mutants that show each checked property can fail, the
findings and the hazards.

## 1. Inventory of the system

| Part | Code | State | Operations |
|---|---|---|---|
| Process/thread table | `proc.c` allocproc, allocthread, freethread, freeproc, fork, exit, kill_all_threads_besides_myself_and_wait, kthread_create/exit/join, join, wait, reparent | `p->state`, `p->killed`, `t->state`, `t->killed`, `t->xstate`, tids | create, exit, join, reclaim |
| Scheduler, sleep/wakeup | `proc.c` scheduler, sched, yield, forkret, sleep, wakeup | per-CPU current thread, `t->chan`, p->lock held across `swtch` | pick RUNNABLE, block, wake |
| Process memory size | `proc.c` growproc, fork; `sysproc.c` sys_sbrk | `p->sz` | grow, shrink, copy into a child |
| Binary semaphores | `proc.c` bsem_alloc/free/down/up, `sysproc.c` sys_bsem_* | pool of MAX_BSEM: descriptor, `free`, waiter array indexed `(p-proc)*NTHREAD + (t-p->threads)` | alloc, free, down (take or sleep), up (hand off or free) |
| Counting semaphore | `user/Csemaphore.c` | value, two binary semaphores S1, S2 | csem_alloc, csem_down, csem_up, csem_free |
| Signal state | `proc.c` kill, handle_SIGKILL, sigprocmask, check_valid_mask, sigaction, sigret | `pending`, `signal_mask`, `signal_mask_backup`, `handling_signal_counter`, `stopped`, `handling_signals`, handler table and handler masks | send, mask, configure, return from handler |
| Trap path | `trap.c` usertrap, usertrapret, handling_stop_cont, signals_handling, user_signal_handlng | trapframe, one trapframe backup per thread | killed checks, stop loop, delivery |

How the parts interact:
- `usertrap` checks `p->killed`, then `t->killed`, on system-call entry and again after the call or interrupt.
- `usertrapret` runs `signals_handling` under `p->lock`. It parks the thread while the process is stopped, then delivers pending signals. A SIG_DFL signal terminates the process (`exit`) or the thread (`kthread_exit`); any other handler gets a trampoline frame.
- `kill` changes the target's signal state under its `p->lock`. For kill-type signals, `handle_SIGKILL` also makes the first sleeping thread runnable.
- `exit` flags every sibling killed, wakes the sleeping ones and joins them.
- `bsem_down` puts the caller to sleep directly, without `sleep()`. `bsem_up` makes a recorded waiter runnable.

What is hard:
- Many threads on several CPUs interleave.
- A kill can come at any point. It wakes threads out of semaphores and joins, and those threads exit without cleaning up.
- Thread and process slots are reused.
- Stop and continue nest through a counter and a single mask backup.
- Each thread has a single trapframe backup.
- Handler tags and user addresses share one number space.

The correctness properties the spec (§8) and the code comments state:
- Semaphores give mutual exclusion without deadlock.
- SIGKILL and SIGSTOP can never be blocked or rebound.
- A stopped process runs no user code until SIGCONT or a kill. This is not checked: Signals makes `signals_handling` and the return to user mode one step for one thread, so a property about it would only restate `handling_stop_cont`'s loop condition.
- A blocked signal stays pending.
- sigret returns to exactly the interrupted code.
- A killed process dies.
- exit reaps every thread before the process becomes ZOMBIE.
- A thread runs on at most one CPU, and `sched()` is entered holding exactly `p->lock` (its panics).

## 2. Modules

### `BinarySemaphore` (abstract)
This is what a semaphore pool promises:
- descriptors are allocated or not;
- each allocated semaphore has at most one owner;
- a thread that finds a semaphore owned blocks;
- release frees the semaphore, or hands it to any one blocked thread. No fairness is promised (spec §8).

### `BSem`
Binary semaphores together with the thread life cycle that disturbs them.

Constants NPROC, NTHREAD and NSEM. A thread is its waiter-array index `Slots = 0..NPROC*NTHREAD-1`, so slot reuse is modelled exactly as the waiter array sees it.

Variables:
- `tstate`, `pc`, `tkilled` (per thread);
- `pstate`, `killed` (per process);
- `sdesc`, `sfree`, `waiters` (the pool);
- `sarg` (the descriptor a thread is calling with) and `holds` (what a thread acquired).

RUNNING is folded into RUNNABLE (`Runs`).

Actions:
- bsem_down is split at its `sched()`: `DownAcquire`, `DownBlock`, and `DownResume` after the wakeup. `bsem_up` takes the first entry of the waiter array (`Min`).
- `exit`, `ExitBegins`, `JoinSleeps` and `ExitEnds` model exit. They cover `kill_all_threads_besides_myself_and_wait`, join, the early return on `t->killed`, and exit's tail.
- The others are `kthread_exit` (with `check_if_last`), `kthread_create`, `handle_SIGKILL`, `freeproc` (from the parent's wait) and `fork` (a new process in a free slot).
- `Kills = FALSE` turns off kills and voluntary exits while siblings are live. This leaves the semaphore protocol on its own.

`BSem` refines `BinarySemaphore`:
- `owner` maps to the thread that holds the semaphore, or the one `bsem_up` made runnable that has not yet returned;
- `blocked` maps to the threads asleep in `bsem_down` on it.

### `Signals`
The signal state of one process and the threads returning to user mode through it. Other processes' `kill()` calls are bounded by MaxSends.

Data is abstracted as follows:
- 32-bit sets become sets of the signal numbers in `Sigs`.
- Handler values are the tags 0, 1, 9, 17 and 19, or addresses in `UserAddr`.
- A trapframe is reduced to where user mode resumes: MAIN, a handler address, or JUNK (the backup page before anything was saved there).
- `nest` is a ghost stack of the contexts interrupted by handlers not yet returned from.

Actions:
- `kill` dispatches through `Dispatch`, which has one arm per branch of `kill()`, using `KillEffect`, `StopEffect` and `ContEffect`.
- The user system calls are `sigprocmask`, `sigaction` (including the reserved-number and invalid-mask returns) and `sigret`. `Interrupt` is the timer or any other trap.
- `TrapRet` is usertrap's second killed check. `EnterKilled` is the first.
- `signals_handling` covers the stop loop (`Parks` / `StopSpin`) and the delivery loop. The delivery loop is the RECURSIVE operator `Deliver`, which scans signal numbers upwards, just as the C loop does. It returns the new signal state and frame, and whether the loop ended in `exit` or `kthread_exit`.
- Exit is coarser than in BSem: `ExitStarts` flags the siblings, `KthreadExits` implements `check_if_last`, and `ExitEnds` completes exit.
- `lockHeld` records a `p->lock` that a system call returned with still held. Acquiring it again from the same thread halts the machine (`panic`).

### `CountingSemaphore` (abstract)
This is what a counting semaphore promises (spec §4.5, §8):
- an allocated semaphore holds a count that is never negative;
- `Down` passes only by taking one unit of a positive count;
- `Up` adds one.

### `CSem` (with `MCCSem`)
This module models `user/Csemaphore.c`: Barz's counting semaphore built from two kernel binary semaphores. `S1` protects `value`; `S2` is the gate that is open while `value > 0`.

Constants:
- `Workers` call `csem_down`, a critical section, then `csem_up`;
- `Signalers` only call `csem_up`, at most `MaxUps` times per allocation;
- `PoolSize` is the kernel pool;
- `InitValues` are the initial values programs allocate with.

Variables:
- the kernel pool (`balloc`, `bfree`, `bwait`);
- the semaphore (`live`, `value`, `S1`, `S2`);
- one `pc` per thread;
- `held`, the descriptors some other program holds.

Each `bsem_down`/`bsem_up` of the C code is one step (`BDown`, `BResume`, `BUp`, the waiter chosen by `Min` index as in `bsem_up`). Each line of `csem_down`/`csem_up` between two kernel calls is its own action. `csem_alloc` allocates `S1`, then `S2` only if `S1` succeeded, and opens `S2` only when the initial value is not 0. `OtherAlloc`/`OtherFree` let another program use the pool.

`CSem` refines `CountingSemaphore`, with `count` mapped to `value` while the semaphore is live.

### `Threads`
This module models one process and its NTHREAD thread slots:
- `kthread_create` takes the lowest UNUSED or ZOMBIE slot;
- `kthread_exit` (`check_if_last`, the ZOMBIE transition);
- `kthread_join`/`join` with its loop over the slots, reaping a ZOMBIE through `freethread`;
- `exit` (`kill_all_threads_besides_myself_and_wait`, then its tail);
- `fork`/`wait` of one child;
- `handle_SIGKILL` (wakes only the first sleeping thread);
- usertrap's two killed checks;
- the out-of-memory returns: `AllocthreadFails` (kalloc failing for a kernel stack or for the trapframe backup, after which the slot is freethread'd, a reclaimed ZOMBIE included) and, in `fork`, `AllocprocFails` (allocproc or uvmcopy failing, rolled back by freeproc) and the failure of `allocthread(np)`, which returns -1 but leaves the child slot USED (`child = "leaked"`). After a leak the model forks no more: one child slot stands for the process table.

Each thread has a `pc` at the points where the C code can block or re-check. `Woken` is `wakeup`: it wakes only threads of a RUNNABLE process, as `wakeup` does. The ghost variables `exited`, `joinFreed` and `res` record what `kthread_exit` stored and what `join` returned for each tid.

Bounds:
- `MaxTid` bounds the tids handed out;
- `MaxKills` bounds the SIGKILLs;
- `Forks` turns fork/wait on.

### `Sched`
This module models the kernel at spinlock granularity on NCPU CPUs, for NPROC processes of NTHREAD threads:
- per CPU, `scheduler()`'s loop: `SchedLock` takes the scanned process's p->lock, and `SchedRun` switches to a RUNNABLE thread of it (or `SchedSkip` passes over a thread that is not RUNNABLE). `SchedUnlock` releases p->lock once the thread is back, and moves on. `spos` is the loop position and `cur` is `c->thread`;
- `GoSched` is `sched()`. It checks the three panics (p->lock held, `noff == 1`, state not RUNNING) over the primed state, and hands the CPU back to the scheduler with p->lock still held. `Resume` is the thread's side of that hand-off (`forkret`, or the return from `sched` in `yield` or `bsem_down`), which releases p->lock;
- `UserTrap` and `yield`: usertrap's timer yield;
- `bsem_down` (`DownLock`, `DownSleep`, `DownSched`) and `bsem_up` (`UpLock`, `UpWake`) with the lock order of the code. `UpWake` writes the waiter's state under the *caller's* p->lock;
- `join` (`JoinLockWait`, `JoinLockProc`, `JoinScan`), `sleep` (`Sleep`, `SleepSched`, `SleepWoken`, `SleepRelock`) and `wakeup` (`Wakeup`, which loops over processes, taking each p->lock);
- `kthread_exit` (`IsLast`, `ExitCheck`, `ExitLockWait`, `ExitZombie`) and, for the last thread, `exit`'s reap and tail (`ExitReap`, `ExitLockWaitFinal`, `ExitFinal`);
- `Kill` is `handle_SIGKILL`: it wakes the first SLEEPING thread of the process. Only `SpecWithKills` contains it.

`plock`, `wlock` and `slock` hold the CPU that owns each spinlock (`NoCPU` when free). Each thread's `pc` is the point at which its CPU resumes it. The timer yield from `kerneltrap` is not an action. It can only occur at kernel points where the thread holds no lock, so it changes only which CPU later resumes the thread. Adding it made the state space too large for a checked run.

### `Sbrk` (with `MCSbrk`)
This module models `p->sz` of one process as NTHREAD threads change and read it:
- `sys_sbrk` reads `p->sz` into `addr`, outside `p->lock`;
- `growproc` updates `p->sz` under `p->lock`, with `uvmalloc` succeeding (up to `MaxSz` pages) or failing, and `uvmdealloc`. Every write of `p->sz` is under the lock, so the update is one step. The ghost `base` is the size `growproc` started from. A shrink below zero wraps growproc's 32-bit `uint sz` to a size above the old one, which `uvmdealloc` leaves alone (`Dealloc`);
- `fork` reads `p->sz` twice without the lock: `ForkCopy` for `uvmcopy` (which may fail) and `ForkSetSz` for `np->sz`.

Sizes are in pages. `uvmalloc`, `uvmdealloc` and `uvmcopy` live in `vm.c`, which the repository does not contain. They are reduced to the size they return. `MCSbrk` supplies the negative argument the cfg parser cannot read.

### `Signals`
One property was added this sitting: `StopSavesMask`, with the ghost variable `openMask`, the mask in force when the outermost stop level opened.

## 3. Runs

The numbers give distinct states and running time on 2 workers.

| Run | Config | Expect | What it shows |
|---|---|---|---|
| bsem | MCBSem.cfg: 2 procs × 2 threads, 2 sems, no kills | pass (≈49k, 9 s) | WaitersAreBlocked; BSem implements BinarySemaphore (so mutual exclusion) |
| bsem_kill | MCBSemKill.cfg: 2×2 threads, 1 sem, kills | pass (≈800k, 20 s) | TypeOK; a thread asleep in bsem_down keeps its waiter entry, though kills leave stale entries that bsem_up wakes and clears |
| bsem_concurrent_exit | MCBSemExitRace.cfg: 1×2, kills | violation | process ZOMBIE while a thread runs (finding) |
| signals | MCSignals.cfg: 1 thread, Sigs {2,9,17,19}, 3 sends, masks {}, {2}, {9}, FairSpec | pass (≈2.2M, 2.5 min) | TypeOK; reserved signals never blocked or rebound; a killed process exits |
| signals_nested_sigret | MCSignalsNested.cfg: 2 sends | violation | nested delivery loses the original context (finding) |
| csem | MCCSem.cfg: 2 workers + 1 signaler, pool 3, values {0,1}, 2 ups, FairSpec | pass (≈16k, 2 s) | CSem implements CountingSemaphore; a waiting down passes the gate when value > 0 |
| threads | MCThreads.cfg: 2 slots, 3 tids, 1 kill, fork/wait | pass (≈2.4M, 23 s) | TypeOK; a joiner only ever sleeps on a live thread, so its wakeup is still to come |
| threads_exit_liveness | MCThreadsLive.cfg: same, no fork, FairSpec | pass (≈166k) | a thread that calls exit eventually sees the process ZOMBIE |
| sched | MCSched.cfg: 2 CPUs, 2 procs × 2 threads, one semaphore, no kills | pass (≈617k, 9 s) | no thread on two CPUs; no joiner sleeps on an exited thread; `sched()` never panics; no state leaves every CPU spinning (deadlock check) |
| sbrk_stale_break | MCSbrk.cfg (module MCSbrk): 2 threads, sbrk(1) and sbrk(-2), 1 page initially, 3 pages of memory | violation | a sibling's growproc between sys_sbrk's read of `p->sz` and its own growproc makes sbrk return a stale break (finding) |
| sched_kill_double_run | MCSchedKill.cfg: same, 1 kill | violation | a kill wakes a bsem_down sleeper, and a later bsem_up makes it RUNNABLE while it runs, so two CPUs run one thread (finding) |
| threads_kill_join | MCThreadsKillJoin.cfg: 1 kill, FairSpec | violation | SIGKILL while both threads join: nobody dies (finding) |

The project keeps twelve checked runs. These configs are kept beside the model and reproduce further counterexamples. Each was checked while modelling, and `PROJECT.json` names them in the hazard notes:

| Config | Module | Property violated | What it shows |
|---|---|---|---|
| MCBSemExitHang.cfg | BSem | ExitCompletes | a sibling flagged killed by exit's sweep still sleeps in bsem_down on a semaphore a killed process never released, and exit's join waits forever |
| MCBSemKillME.cfg | BSem | MutualExclusion | a waiter entry left by a kill is woken after its slot is reused, so a semaphore gets two owners |
| MCSbrkFork.cfg | MCSbrk | ChildSizeIsCopied | a sibling's sbrk between fork's two reads of `p->sz` gives the child a size other than what uvmcopy copied |
| MCThreadsForkLeak.cfg | Threads | ForkRollsBack | allocthread failing in fork leaves the new process USED for good |
| MCSignalsTag.cfg | Signals | RunsOnlyUserCode | a handler equal to the tag 9 is jumped to as an address |
| MCSignalsMasked.cfg | Signals | MaskedSignalBecomesPending | a masked SIG_DFL signal is dropped |
| MCSignalsExitHang.cfg | Signals | ExitCompletes | exit's join hangs on a stopped sibling |
| MCSignalsStopMask.cfg | Signals | StopSavesMask | a nested stop overwrites the mask backup |
| MCThreadsReclaim.cfg | Threads | JoinFindsExited | allocthread reclaims a ZOMBIE slot before its join |
| MCThreadsExitCreate.cfg | Threads | ExitCompletes | a create racing exit leaves a thread exit never joins |
| MCThreadsExitWait.cfg | Threads | ExitCompletes | wait re-sleeps and ignores the killed thread |
| MCSignalsPanic.cfg | Signals | NoPanic | sigaction leaks p->lock on an invalid mask, then the next acquire panics |
| MCThreadsStatus.cfg | Threads | JoinYieldsStatus | join always yields status 0 |
| MCCSemLeak.cfg | MCCSem | NoLeakedSemaphore | csem_alloc keeps S1 when S2 fails |
| MCCSemNegative.cfg | MCCSem | AbstractCounting | a negative initial value lets down pass |

Why the bounds are enough:
- Two processes of two threads are the least that lets a waiter slot be reused by another process's thread while the semaphore is held.
- Two semaphores exercise the ordered nested acquisition of the test programs.
- Three sends allow STOP, STOP, CONT and a nested delivery.
- With kills the pool is cut to one semaphore to keep the run under a minute. Every path of the kill and reuse code still involves that semaphore.
- CSem: two workers contend for the gate while a third thread ups. A pool of 3 leaves room for another program's allocation. Initial values 0 and 1 cover both gate states, and two ups take the value through 1 and 2.
- Sched: two CPUs are the least for two schedulers to race over one thread. Two processes of two threads let `bsem_up` run in another process than its waiter, a joiner and an exiting thread run side by side, and `wakeup` scan a process other than its own.
- Sbrk: two threads are the least for a race. One growing and one shrinking argument cover both branches of growproc, and a shrink of 2 pages from 1 page reaches the wrap below zero. Three pages of memory let two grows succeed and a third fail.
- Threads: two slots and three tids are enough for a slot to be reused by a new tid, and for joins, exit and a kill to interleave. Three slots (≈30 min) were too slow for a checked run.

## 4. Fairness

`FairSpec` in Signals assumes weak fairness of each thread's kernel steps and of its timer interrupt:
- `scheduler()` scans every RUNNABLE thread in turn;
- the timer interrupts user code, so a thread in user mode eventually traps.

No fairness is assumed for system calls a program chooses to make. The spin in `handling_stop_cont` is a `yield` loop that re-checks each time, so it gets weak fairness only. A SIGCONT that keeps alternating with SIGSTOP need not be seen.

`FairSpec` in Threads assumes weak fairness of each slot's kernel steps, for the same scheduler and timer reasons. `FairSpec` in CSem assumes weak fairness of each thread's step inside csem_down/csem_up and of leaving the critical section: the test programs' critical sections are finite.

Threads runs have `CHECK_DEADLOCK FALSE` because a program may block all its threads in join or wait forever, and the kernel allows that.

BSem's checked runs are about safety. Its `FairSpec` (weak fairness of each thread's kernel steps and of a killed thread's exit, for the same scheduler and timer reasons) is used by MCBSemExitHang.cfg. Sched checks only safety and deadlock freedom: a spinlock acquire is a test-and-set loop, and the code guarantees no fairness between CPUs that spin on the same lock. Its runs check deadlock. Without kills, every state has a successor: at least one CPU can always take a step.

## 5. Planned

- Sched with `kerneltrap`'s kernel-mode yield, on a larger machine.
- Liveness of `bsem_down` at spinlock granularity in Sched. It needs strong fairness of spinlock acquisition, which xv6's `acquire` (a test-and-set spin) does not give, so it is not assumed.

## 6. Not modelled, and why


- Virtual memory, files, devices, `copyin`/`copyout` and the argument layer are I/O outside the concurrency core (spec: out of scope). Only the size of a process's memory is modelled (Sbrk).
- `kerneltrap`, `devintr`, `clockintr` and `sys_sleep` are not modelled. `kerneltrap`'s yield at lock-free kernel points made the Sched run too large for a checked run. `sys_sleep` re-checks only `p->killed` on each tick, so a thread flagged killed by exit's sweep sleeps out its full time. That only delays exit by a bounded number of ticks, and a tick-counter model would need a run of its own.
- The trapframe register layout is abstracted to where user mode resumes.
- Out-of-range descriptors and signal numbers are memory-safety issues. They lie outside TLC's reach; the models use valid ones only.
- pid and tid allocation, `procdump`, `kthread_id` and `userinit` change nothing the properties distinguish.
- The test programs (`user/tests.c`, `user/kill.c`) are drivers. Their scenarios chose the inputs and bounds above.
