------------------------------- MODULE Threads ------------------------------
(***************************************************************************)
(* The thread table of one process (kernel/proc.c): kthread_create with    *)
(* allocthread, kthread_exit with check_if_last, join/kthread_join, exit   *)
(* with kill_all_threads_besides_myself_and_wait, wait for one child,      *)
(* fork of that child, kill's handle_SIGKILL, and usertrap's killed checks *)
(* (trap.c) around every system call and interrupt.                        *)
(*                                                                         *)
(* A thread is its slot in p->threads.  RUNNING is folded into RUNNABLE;   *)
(* T_USED exists only inside allocthread under p->lock and is not a state  *)
(* of its own.  A sleeping thread's chan is a slot (join sleeps on the     *)
(* thread it waits for) or Proc (wait sleeps on its own proc).             *)
(***************************************************************************)
EXTENDS Naturals, FiniteSets, FiniteSetsExt

CONSTANTS
  NTHREAD,    \* threads per process
  MaxTid,     \* last tid alloctid may hand out (nexttid is unbounded)
  Statuses,   \* exit statuses user code passes to kthread_exit and exit
  MaxKills,   \* kill(pid, SIGKILL) calls from other processes
  Forks       \* whether the process forks a child (and so can wait)

Slots == 0 .. NTHREAD - 1
Tids == 1 .. MaxTid
Proc == NTHREAD     \* the channel wait() sleeps on and exit() wakes
NoChan == -1

VARIABLES
  tstate,    \* t->state
  tid,       \* t->tid (0 when free)
  xstate,    \* t->xstate
  tkilled,   \* t->killed
  chan,      \* t->chan
  pc,        \* where the thread is (see PCs)
  arg,       \* the tid join is looking for
  status,    \* the status kthread_exit or exit was called with
  jidx,      \* the slot kill_all_threads_besides_myself_and_wait is at
  pstate,    \* p->state: RUNNABLE or ZOMBIE
  pkilled,   \* p->killed
  child,     \* the child: none, alive, ZOMBIE, or leaked by a failed fork
  nexttid,
  kills,
  exited,    \* ghost: <<tid, status>> of each completed kthread_exit
  joinFreed, \* ghost: tids whose ZOMBIE a join freed
  res        \* ghost: what each thread's last kthread_join returned

vars == <<tstate, tid, xstate, tkilled, chan, pc, arg, status, jidx,
          pstate, pkilled, child, nexttid, kills, exited, joinFreed, res>>
procVars == <<pstate, pkilled, child, nexttid, kills>>
ghostVars == <<exited, joinFreed, res>>

\* user: in user code; ret: back in usertrap after a system call or trap;
\* create, join, kexit, kexit2, wait, fork: inside that system call;
\* exit, xjoin, xjoining, xend: the steps of exit; dead: gone for good.
PCs == {"user", "ret", "create", "join", "kexit", "kexit2", "wait", "fork",
        "exit", "xjoin", "xjoining", "xend", "dead"}
NoRes == [tid |-> 0, rc |-> 0, st |-> 0, killed |-> FALSE]

TypeOK ==
  /\ tstate \in [Slots -> {"UNUSED", "RUNNABLE", "SLEEPING", "ZOMBIE"}]
  /\ tid \in [Slots -> 0 .. MaxTid] /\ tkilled \in [Slots -> BOOLEAN]
  /\ chan \in [Slots -> Slots \cup {Proc, NoChan}]
  /\ pc \in [Slots -> PCs] /\ jidx \in [Slots -> 0 .. NTHREAD]
  /\ pstate \in {"RUNNABLE", "ZOMBIE"} /\ pkilled \in BOOLEAN
  /\ child \in {"none", "alive", "ZOMBIE", "leaked"} /\ kills \in 0 .. MaxKills
  /\ joinFreed \subseteq Tids

\* The process after fork/userinit: its first thread (slot 0, tid 1) runs.
Init ==
  /\ tstate = [s \in Slots |-> IF s = 0 THEN "RUNNABLE" ELSE "UNUSED"]
  /\ tid = [s \in Slots |-> IF s = 0 THEN 1 ELSE 0]
  /\ xstate = [s \in Slots |-> 0]
  /\ tkilled = [s \in Slots |-> FALSE]
  /\ chan = [s \in Slots |-> NoChan]
  /\ pc = [s \in Slots |-> IF s = 0 THEN "user" ELSE "dead"]
  /\ arg = [s \in Slots |-> 0]
  /\ status = [s \in Slots |-> 0]
  /\ jidx = [s \in Slots |-> 0]
  /\ pstate = "RUNNABLE" /\ pkilled = FALSE /\ child = "none"
  /\ nexttid = 2 /\ kills = 0
  /\ exited = {} /\ joinFreed = {}
  /\ res = [s \in Slots |-> NoRes]

-----------------------------------------------------------------------------
(***************************************************************************)
(* Helpers.                                                                *)
(***************************************************************************)

\* A thread executes kernel or user code when it is neither asleep nor gone;
\* a thread that made itself ZOMBIE in kthread_exit and found itself last
\* still runs exit().
Runs(s) == pc[s] # "dead" /\ tstate[s] # "SLEEPING"

\* The states check_if_last counts as live (T_RUNNING, T_USED folded in).
Alive(j) == tstate[j] \in {"RUNNABLE", "SLEEPING"}

check_if_last(s) == \A j \in Slots \ {s} : ~Alive(j)

\* wakeup(c): the threads sleeping on c become RUNNABLE, but only when the
\* process itself is RUNNABLE.
Woken(ts, c) ==
  [j \in Slots |-> IF pstate = "RUNNABLE" /\ ts[j] = "SLEEPING" /\ chan[j] = c
                   THEN "RUNNABLE" ELSE ts[j]]

\* The first slot allocthread takes: UNUSED, or ZOMBIE (then freethread'd).
FirstReusable == {j \in Slots : tstate[j] \in {"UNUSED", "ZOMBIE"}}

Go(s, l) == pc' = [pc EXCEPT ![s] = l]

-----------------------------------------------------------------------------
(***************************************************************************)
(* User mode and usertrap.                                                 *)
(***************************************************************************)

\* A system call: usertrap exits on p->killed, then kthread_exits on
\* t->killed, before the call itself runs (trap.c 56-64).
Syscall(s, call, a) ==
  /\ pc[s] = "user" /\ Runs(s)
  /\ CASE pkilled -> Go(s, "exit") /\ status' = [status EXCEPT ![s] = -1]
                     /\ UNCHANGED arg
       [] tkilled[s] -> Go(s, "kexit") /\ status' = [status EXCEPT ![s] = -1]
                        /\ UNCHANGED arg
       [] call \in {"kexit", "exit"} -> Go(s, call) /\ status' = [status EXCEPT ![s] = a]
                                        /\ UNCHANGED arg
       [] OTHER -> Go(s, call) /\ arg' = [arg EXCEPT ![s] = a] /\ UNCHANGED status
  /\ UNCHANGED <<tstate, tid, xstate, tkilled, chan, jidx, procVars, ghostVars>>

\* The calls a program makes: kthread_create while tids last (counting the
\* creates already under way), kthread_join
\* of any tid, kthread_exit, exit, fork of the one child, wait.
UserCall(s) ==
  \/ nexttid + Cardinality({j \in Slots : pc[j] = "create"}) <= MaxTid
     /\ Syscall(s, "create", 0)
  \/ \E x \in Tids : Syscall(s, "join", x)
  \/ \E st \in Statuses : Syscall(s, "kexit", st) \/ Syscall(s, "exit", st)
  \/ Forks /\ child = "none" /\ Syscall(s, "fork", 0)
  \/ Forks /\ Syscall(s, "wait", 0)

\* A timer or device interrupt takes a thread in user mode into usertrap.
Interrupt(s) ==
  /\ pc[s] = "user" /\ Runs(s)
  /\ Go(s, "ret")
  /\ UNCHANGED <<tstate, tid, xstate, tkilled, chan, arg, status, jidx,
                 procVars, ghostVars>>

\* usertrap after the call or interrupt: p->killed, then t->killed (82-89).
TrapRet(s) ==
  /\ pc[s] = "ret" /\ Runs(s)
  /\ CASE pkilled -> Go(s, "exit") /\ status' = [status EXCEPT ![s] = -1]
       [] tkilled[s] -> Go(s, "kexit") /\ status' = [status EXCEPT ![s] = -1]
       [] OTHER -> Go(s, "user") /\ UNCHANGED status
  /\ UNCHANGED <<tstate, tid, xstate, tkilled, chan, arg, jidx, procVars, ghostVars>>

-----------------------------------------------------------------------------
(***************************************************************************)
(* kthread_create, kthread_exit, join.                                     *)
(***************************************************************************)

\* freethread(j): the slot is UNUSED again, tid, killed and xstate zeroed.
FreeThread(j) ==
  /\ tstate' = [tstate EXCEPT ![j] = "UNUSED"]
  /\ tid' = [tid EXCEPT ![j] = 0]
  /\ xstate' = [xstate EXCEPT ![j] = 0]
  /\ tkilled' = [tkilled EXCEPT ![j] = FALSE]
  /\ chan' = [chan EXCEPT ![j] = NoChan]

\* allocthread's kalloc failures: for the kernel stack of a slot other than
\* the first, or, after alloctid, for the trapframe backup; either way the
\* slot is freethread'd.
AllocthreadFails(n) ==
  \/ n # 0 /\ FreeThread(n) /\ UNCHANGED nexttid
  \/ FreeThread(n) /\ nexttid' = nexttid + 1

\* kthread_create: allocthread takes the first UNUSED or ZOMBIE slot (a
\* ZOMBIE is freethread'd first, its xstate lost); the new thread gets the
\* next tid and is made RUNNABLE, or the call returns -1.  When kalloc
\* fails, for the kernel stack of a slot other than the first or for the
\* trapframe backup after alloctid, allocthread freethreads the slot and
\* kthread_create returns -1: a reclaimed ZOMBIE stays lost.
kthread_create(s) ==
  /\ pc[s] = "create" /\ Runs(s)
  /\ IF FirstReusable # {}
     THEN LET n == Min(FirstReusable) IN
          \/ /\ tstate' = [tstate EXCEPT ![n] = "RUNNABLE"]
             /\ tid' = [tid EXCEPT ![n] = nexttid]
             /\ xstate' = [xstate EXCEPT ![n] = 0]
             /\ tkilled' = [tkilled EXCEPT ![n] = FALSE]
             /\ chan' = [chan EXCEPT ![n] = NoChan]
             \* (a reclaimed ZOMBIE was freethread'd: the same fields zeroed)
             /\ pc' = [pc EXCEPT ![s] = "ret", ![n] = "user"]
             /\ nexttid' = nexttid + 1
          \/ AllocthreadFails(n) /\ Go(s, "ret")
     ELSE Go(s, "ret") /\ UNCHANGED <<tstate, tid, xstate, tkilled, chan, nexttid>>
  /\ UNCHANGED <<arg, status, jidx, pstate, pkilled, child, kills, ghostVars>>

\* kthread_exit, under p->lock: if check_if_last, exit(status) instead.
kthread_exit(s) ==
  /\ pc[s] = "kexit" /\ Runs(s)
  /\ Go(s, IF check_if_last(s) THEN "exit" ELSE "kexit2")
  /\ UNCHANGED <<tstate, tid, xstate, tkilled, chan, arg, status, jidx,
                 procVars, ghostVars>>

KthreadZombie(s) ==
  /\ pc[s] = "kexit2" /\ Runs(s)
  /\ tstate' = [Woken(tstate, s) EXCEPT ![s] = "ZOMBIE"]
  /\ xstate' = [xstate EXCEPT ![s] = status[s]]
  /\ exited' = exited \cup {<<tid[s], status[s]>>}
  /\ Go(s, IF check_if_last(s) THEN "exit" ELSE "dead")
  /\ UNCHANGED <<tid, tkilled, chan, arg, status, jidx, procVars,
                 joinFreed, res>>

\* Where join returns to: kthread_join's user caller (returning -1 for
\* -199, else 0 and the status), or exit's loop over the other slots.
JoinReturns(s, v) ==
  IF pc[s] = "join"
  THEN /\ Go(s, "ret")
       /\ res' = [res EXCEPT ![s] = [tid |-> arg[s], rc |-> IF v = -199 THEN -1 ELSE 0,
                                     st |-> v, killed |-> tkilled[s]]]
       /\ UNCHANGED jidx
  ELSE /\ Go(s, "xjoin")
       /\ jidx' = [jidx EXCEPT ![s] = @ + 1]
       /\ UNCHANGED res

\* join finding its thread ZOMBIE: freethread, then return
\* t_to_wait_for->xstate, which freethread has just zeroed.
JoinReap(s, j) ==
  /\ FreeThread(j)
  /\ joinFreed' = joinFreed \cup {arg[s]}
  /\ JoinReturns(s, xstate'[j])

\* join, under wait_lock and p->lock, for the thread arg[s] (never the
\* caller's own slot): a ZOMBIE is freed and its xstate returned; a killed
\* caller, or a tid no slot has, gets -199; otherwise sleep(t, &wait_lock)
\* and look again once woken.
join(s) ==
  /\ pc[s] \in {"join", "xjoining"} /\ Runs(s)
  /\ LET m == {j \in Slots \ {s} : tid[j] = arg[s]} IN
     IF m = {}
     THEN JoinReturns(s, -199) /\ UNCHANGED <<tstate, tid, xstate, tkilled, chan, joinFreed>>
     ELSE LET j == CHOOSE j \in m : TRUE IN
       CASE tstate[j] = "ZOMBIE" -> JoinReap(s, j)
         [] tkilled[s] ->
              JoinReturns(s, -199) /\ UNCHANGED <<tstate, tid, xstate, tkilled, chan, joinFreed>>
         [] OTHER ->
              /\ tstate' = [tstate EXCEPT ![s] = "SLEEPING"]
              /\ chan' = [chan EXCEPT ![s] = j]
              /\ UNCHANGED <<pc, tid, xstate, tkilled, jidx, joinFreed, res>>
  /\ UNCHANGED <<arg, status, procVars, exited>>

-----------------------------------------------------------------------------
(***************************************************************************)
(* exit.                                                                   *)
(***************************************************************************)

ExitKillOthers_no_wake(s) ==
  /\ pc[s] = "exit" /\ Runs(s)
  /\ LET others == {j \in Slots : tid[j] # tid[s] /\ tid[j] # 0 /\ Alive(j)} IN
       /\ tkilled' = [j \in Slots |-> tkilled[j] \/ j \in others]
       /\ UNCHANGED tstate
  /\ jidx' = [jidx EXCEPT ![s] = 0]
  /\ Go(s, "xjoin")
  /\ UNCHANGED <<tid, xstate, chan, arg, status, procVars, ghostVars>>

\* kill_all_threads_besides_myself_and_wait, first loop under p->lock:
\* every other live thread is flagged killed, and a sleeping one is made
\* RUNNABLE.
ExitKillOthers(s) ==
  /\ pc[s] = "exit" /\ Runs(s)
  /\ LET others == {j \in Slots : tid[j] # tid[s] /\ tid[j] # 0 /\ Alive(j)} IN
       /\ tkilled' = [j \in Slots |-> tkilled[j] \/ j \in others]
       /\ tstate' = [j \in Slots |-> IF j \in others /\ tstate[j] = "SLEEPING"
                                     THEN "RUNNABLE" ELSE tstate[j]]
  /\ jidx' = [jidx EXCEPT ![s] = 0]
  /\ Go(s, "xjoin")
  /\ UNCHANGED <<tid, xstate, chan, arg, status, procVars, ghostVars>>

ExitJoinNext_double_advance(s) ==
  /\ pc[s] = "xjoin" /\ Runs(s)
  /\ jidx[s] < NTHREAD
  /\ IF tid[jidx[s]] # tid[s] /\ tid[jidx[s]] # 0
     THEN Go(s, "xjoining") /\ arg' = [arg EXCEPT ![s] = tid[jidx[s]]]
          /\ jidx' = [jidx EXCEPT ![s] = @ + 1]
     ELSE jidx' = [jidx EXCEPT ![s] = @ + 1] /\ UNCHANGED <<pc, arg>>
  /\ UNCHANGED <<tstate, tid, xstate, tkilled, chan, status, procVars, ghostVars>>

\* Its second loop: join every other slot with a tid, in slot order, the
\* tid read afresh each time p->lock is retaken.
ExitJoinNext(s) ==
  /\ pc[s] = "xjoin" /\ Runs(s)
  /\ jidx[s] < NTHREAD
  /\ IF tid[jidx[s]] # tid[s] /\ tid[jidx[s]] # 0
     THEN Go(s, "xjoining") /\ arg' = [arg EXCEPT ![s] = tid[jidx[s]]]
          /\ UNCHANGED jidx
     ELSE jidx' = [jidx EXCEPT ![s] = @ + 1] /\ UNCHANGED <<pc, arg>>
  /\ UNCHANGED <<tstate, tid, xstate, tkilled, chan, status, procVars, ghostVars>>

\* The rest of exit, under wait_lock then p->lock: reparent the child to
\* init, wakeup(t), and make the process and the thread ZOMBIE.
ExitEnds(s) ==
  /\ pc[s] = "xjoin" /\ Runs(s)
  /\ jidx[s] = NTHREAD
  /\ child' = IF child = "leaked" THEN child ELSE "none"
  /\ tstate' = [Woken(tstate, s) EXCEPT ![s] = "ZOMBIE"]
  /\ pstate' = "ZOMBIE"
  /\ Go(s, "dead")
  /\ UNCHANGED <<tid, xstate, tkilled, chan, arg, status, jidx, pkilled,
                 nexttid, kills, ghostVars>>

-----------------------------------------------------------------------------
(***************************************************************************)
(* fork and wait for the one child; the child's own exit; kill.           *)
(***************************************************************************)

\* allocproc's kalloc or proc_pagetable failing, or uvmcopy failing in
\* fork: freeproc(np) gives the slot back, and no child exists.
AllocprocFails == UNCHANGED child

\* fork: the child is made RUNNABLE with this process as parent.  When
\* kalloc runs out, allocproc fails, or uvmcopy fails and freeproc(np)
\* undoes allocproc: fork returns -1 with no child.  When allocthread(np)
\* fails, fork returns -1 too but leaves np USED, with no parent, for good.
fork(s) ==
  /\ pc[s] = "fork" /\ Runs(s)
  /\ \/ child' = IF child = "none" THEN "alive" ELSE child
     \/ AllocprocFails
     \/ child = "none" /\ child' = "leaked"
  /\ Go(s, "ret")
  /\ UNCHANGED <<tstate, tid, xstate, tkilled, chan, arg, status, jidx,
                 pstate, pkilled, nexttid, kills, ghostVars>>

\* wait, under wait_lock: reap a ZOMBIE child; return -1 with no child or
\* when p->killed (t->killed is not looked at); otherwise sleep(p).
wait(s) ==
  /\ pc[s] = "wait" /\ Runs(s)
  /\ CASE child = "ZOMBIE" ->
            child' = "none" /\ Go(s, "ret") /\ UNCHANGED <<tstate, chan>>
       [] child \in {"none", "leaked"} \/ pkilled ->
            Go(s, "ret") /\ UNCHANGED <<tstate, chan, child>>
       [] OTHER ->
            /\ tstate' = [tstate EXCEPT ![s] = "SLEEPING"]
            /\ chan' = [chan EXCEPT ![s] = Proc]
            /\ UNCHANGED <<pc, child>>
  /\ UNCHANGED <<tid, xstate, tkilled, arg, status, jidx, pstate, pkilled,
                 nexttid, kills, ghostVars>>

\* The child exits: ZOMBIE, and wakeup(p->parent) wakes this process's
\* threads sleeping in wait.
ChildExit ==
  /\ child = "alive"
  /\ child' = "ZOMBIE"
  /\ tstate' = Woken(tstate, Proc)
  /\ UNCHANGED <<tid, xstate, tkilled, chan, pc, arg, status, jidx,
                 pstate, pkilled, nexttid, kills, ghostVars>>

\* kill(pid, SIGKILL) from another process: handle_SIGKILL sets p->killed
\* and makes the first sleeping thread, in slot order, RUNNABLE.
handle_SIGKILL ==
  /\ kills < MaxKills
  /\ kills' = kills + 1
  /\ pkilled' = TRUE
  /\ LET sl == {j \in Slots : tstate[j] = "SLEEPING"} IN
       tstate' = IF sl = {} THEN tstate ELSE [tstate EXCEPT ![Min(sl)] = "RUNNABLE"]
  /\ UNCHANGED <<tid, xstate, tkilled, chan, pc, arg, status, jidx,
                 pstate, child, nexttid, ghostVars>>

-----------------------------------------------------------------------------

\* The steps a RUNNABLE thread takes in the kernel, and the timer
\* interrupt that takes it out of user code.
KernelStep(s) ==
  \/ Interrupt(s) \/ TrapRet(s) \/ kthread_create(s) \/ kthread_exit(s)
  \/ KthreadZombie(s) \/ join(s) \/ ExitKillOthers(s) \/ ExitJoinNext(s)
  \/ ExitEnds(s) \/ fork(s) \/ wait(s)

Next ==
  \/ \E s \in Slots : UserCall(s) \/ KernelStep(s)
  \/ ChildExit \/ handle_SIGKILL

Spec == Init /\ [][Next]_vars

\* The scheduler runs every RUNNABLE thread, and the timer interrupts user
\* code; a program's own calls, its child's exit and kills come when they do.
FairSpec == Spec /\ \A s \in Slots : WF_vars(KernelStep(s))

-----------------------------------------------------------------------------
(***************************************************************************)
(* Properties.                                                             *)
(***************************************************************************)

JoinYieldsStatus ==
  \A s \in Slots :
    (res[s].rc = 0 /\ \E st \in Statuses : <<res[s].tid, st>> \in exited)
      => <<res[s].tid, res[s].st>> \in exited

\* A kthread_join by a thread that was not killed fails only if its thread
\* never called kthread_exit or another join already collected it: a
\* ZOMBIE thread waits for its joiner (allocthread may not reclaim it).
JoinFindsExited ==
  \A s \in Slots :
    (res[s].rc = -1 /\ ~res[s].killed /\ \E st \in Statuses : <<res[s].tid, st>> \in exited)
      => res[s].tid \in joinFreed

\* Resource exhaustion rolls back all partial state (spec 7): a fork that
\* fails for want of memory leaves no process slot allocated behind it.
ForkRollsBack == child # "leaked"

\* Once a thread has entered exit(), the process eventually becomes ZOMBIE:
\* kill_all_threads_besides_myself_and_wait gets every sibling out of its
\* system call and joins it.
ExitCompletes == \A s \in Slots : pc[s] = "exit" ~> pstate = "ZOMBIE"

\* A process that has been sent SIGKILL eventually becomes ZOMBIE, even
\* when all its threads are asleep in join or wait.
KilledProcessDies == pkilled ~> pstate = "ZOMBIE"

=============================================================================
