------------------------------ MODULE Signals ------------------------------
(***************************************************************************)
(* The signal state machine of one process (kernel/proc.c: kill,           *)
(* handle_SIGKILL, sigprocmask, sigaction, sigret; kernel/trap.c:          *)
(* usertrap's killed checks, signals_handling, handling_stop_cont,         *)
(* user_signal_handlng) with the threads of that process returning to     *)
(* user mode through it, and kill() calls from other processes.            *)
(*                                                                         *)
(* A 32-bit signal set is the set of its signal numbers (x & (1<<s) is     *)
(* s \in x).  A handler is the value stored in p->signal_handlers[s]: the *)
(* numbers SIG_DFL, SIG_IGN, SIGKILL, SIGSTOP, SIGCONT, or a user address. *)
(* A thread's trapframe is abstracted to where user mode resumes: MAIN,    *)
(* the thread's own instruction stream, or a handler address; the backup  *)
(* page starts as JUNK (kalloc'd, never written).                          *)
(***************************************************************************)
EXTENDS Naturals, Sequences, FiniteSets, SequencesExt

CONSTANTS
  Threads,    \* the thread slots of the process
  Sigs,       \* the signal numbers considered (a subset of 0..31)
  UserAddr,   \* the user handler addresses programs install
  Masks,      \* the masks programs pass to sigprocmask and sigaction
  MaxSends,   \* bound on kill() calls made to the process
  NoThread

SIG_DFL == 0
SIG_IGN == 1
SIGKILL == 9
SIGSTOP == 17
SIGCONT == 19
MAIN == -1
JUNK == -2

ASSUME {SIGKILL, SIGSTOP, SIGCONT} \subseteq Sigs /\ Sigs \subseteq 0 .. 31
ASSUME UserAddr \cap {SIG_DFL, SIG_IGN, SIGKILL, SIGSTOP, SIGCONT, MAIN, JUNK} = {}
ASSUME MaxSends \in Nat

Handlers == {SIG_DFL, SIG_IGN, SIGKILL, SIGSTOP, SIGCONT} \cup UserAddr
Contexts == {MAIN, JUNK} \cup Handlers
\* signals_handling scans signal numbers upwards
SortedSigs == SortSeq(SetToSeq(Sigs), LAMBDA a, b : a < b)

\* pc values: user code; in usertrap after the system call / interrupt;
\* in usertrapret about to run signals_handling; parked in
\* handling_stop_cont; inside exit(); gone; halted by a kernel panic.
PCs == {"user", "kret", "sh", "stop_wait", "exiting", "dead", "panic"}

VARIABLES
  pstate,     \* p->state: "RUNNABLE" or "ZOMBIE"
  sig,        \* p's signal fields: pending, mask, backup (signal_mask_backup),
              \* counter (handling_signal_counter), stopped, killed,
              \* handling (handling_signals)
  handlers,   \* p->signal_handlers
  hmasks,     \* p->signal_handlers_maskes
  lockHeld,   \* the thread that returned to user mode holding p->lock
  sends,      \* kill() calls made so far
  pc,         \* per thread: where it executes
  tkilled,    \* t->killed
  tf,         \* where t->trapframe resumes user mode
  backup,     \* t->user_trap_frame_backup
  nest,       \* ghost: the contexts interrupted by handlers not yet returned from
  openMask    \* ghost: the mask in force when the outermost stop level opened

vars == <<pstate, sig, handlers, hmasks, lockHeld, sends, pc, tkilled, tf, backup, nest, openMask>>
procVars == <<pstate, sig, handlers, hmasks, lockHeld, sends, openMask>>

SigState == [pending : SUBSET Sigs, mask : SUBSET Sigs, backup : SUBSET Sigs,
             counter : Nat, stopped : BOOLEAN, killed : BOOLEAN, handling : BOOLEAN]

TypeOK ==
  /\ pstate \in {"RUNNABLE", "ZOMBIE"}
  /\ sig \in SigState
  /\ handlers \in [Sigs -> Handlers]
  /\ hmasks \in [Sigs -> SUBSET Sigs]
  /\ lockHeld \in Threads \cup {NoThread}
  /\ sends \in 0 .. MaxSends
  /\ pc \in [Threads -> PCs]
  /\ tkilled \in [Threads -> BOOLEAN]
  /\ tf \in [Threads -> Contexts]
  /\ backup \in [Threads -> Contexts]
  /\ nest \in [Threads -> Seq(Contexts)]
  /\ openMask \in SUBSET Sigs

\* allocproc: no pending signal, empty mask, every handler SIG_DFL with
\* mask -1 (every bit); each thread runs user code.
Init ==
  /\ pstate = "RUNNABLE"
  /\ sig = [pending |-> {}, mask |-> {}, backup |-> {}, counter |-> 0,
            stopped |-> FALSE, killed |-> FALSE, handling |-> FALSE]
  /\ handlers = [s \in Sigs |-> SIG_DFL]
  /\ hmasks = [s \in Sigs |-> Sigs]
  /\ lockHeld = NoThread
  /\ sends = 0
  /\ pc = [t \in Threads |-> "user"]
  /\ tkilled = [t \in Threads |-> FALSE]
  /\ tf = [t \in Threads |-> MAIN]
  /\ backup = [t \in Threads |-> JUNK]
  /\ nest = [t \in Threads |-> <<>>]
  /\ openMask = {}

\* check_valid_mask: SIGKILL and SIGSTOP may not be blocked.
ValidMask_ignores_SIGKILL(m) == SIGSTOP \notin m

ValidMask(m) == SIGKILL \notin m /\ SIGSTOP \notin m

\* acquire(&p->lock) is possible for t only when no thread kept it.
CanLock(t) == lockHeld = NoThread

-----------------------------------------------------------------------------
(***************************************************************************)
(* kill(pid, signum), for the target process, under its p->lock.           *)
(***************************************************************************)

\* handle_SIGKILL: the signal bit is set and the process flagged killed.
\* (Waking its first sleeping thread is modelled in BSem; no thread of
\* this module sleeps.)
KillEffect(st, s) == [st EXCEPT !.pending = @ \cup {s}, !.killed = TRUE]

\* SIGSTOP, or a signal whose handler tag is SIGSTOP: one more stop level.
\* Only a stop tag backs up the mask (at the first level) and installs the
\* signal's handler mask.
StopEffect(st, s) ==
  [st EXCEPT !.counter = @ + 1, !.stopped = TRUE,
             !.backup = IF s # SIGSTOP /\ st.counter + 1 = 1 THEN st.mask ELSE @,
             !.mask = IF s # SIGSTOP THEN hmasks[s] ELSE @]

ContEffect_always_unwinds(st) ==
  [st EXCEPT !.counter = @ - 1, !.mask = st.backup, !.stopped = FALSE]

\* SIGCONT: if stopped, one stop level less and the backed-up mask back.
ContEffect(st) ==
  IF st.stopped
  THEN [st EXCEPT !.counter = @ - 1, !.mask = st.backup, !.stopped = FALSE]
  ELSE [st EXCEPT !.stopped = FALSE]

Dispatch(st, s) ==
  LET h == handlers[s]
      unmasked == s \notin st.mask
  IN
  CASE h = SIG_IGN -> st
    [] s = SIGKILL \/ h = SIGKILL ->
         IF unmasked THEN KillEffect(st, s) ELSE st
    [] s \notin {SIGSTOP, SIGCONT} /\ h = SIG_DFL ->
         IF unmasked THEN KillEffect(st, s) ELSE st
    [] s = SIGSTOP -> StopEffect(st, s)
    [] h = SIGSTOP -> IF unmasked THEN StopEffect(st, s) ELSE st
    [] (s = SIGCONT /\ h = SIG_DFL) \/ h = SIGCONT ->
         IF unmasked THEN ContEffect(st) ELSE st
    [] OTHER -> [st EXCEPT !.pending = @ \cup {s}]

\* Another process calls kill(pid, s); it spins on p->lock if a thread kept it.
kill(s) ==
  /\ sends < MaxSends
  /\ lockHeld = NoThread
  /\ sig' = Dispatch(sig, s)
  /\ sends' = sends + 1
  /\ openMask' = IF sig.counter = 0 /\ sig'.counter >= 1 THEN sig.mask ELSE openMask
  /\ UNCHANGED <<pstate, handlers, hmasks, lockHeld, pc, tkilled, tf, backup, nest>>

-----------------------------------------------------------------------------
(***************************************************************************)
(* Exit paths (the details of exit/kthread_exit are in BSem).              *)
(***************************************************************************)
Others(t) == Threads \ {t}
Alive(u) == pc[u] \notin {"dead", "panic"}

\* exit(): other live threads are flagged killed; the caller joins them.
ExitStarts(t) ==
  /\ pc' = [pc EXCEPT ![t] = "exiting"]
  /\ tkilled' = [u \in Threads |-> IF u # t /\ Alive(u) THEN TRUE ELSE tkilled[u]]

\* kthread_exit(): the last live thread runs exit(), any other one is gone.
KthreadExits(t) ==
  IF \A u \in Others(t) : ~Alive(u)
  THEN ExitStarts(t)
  ELSE /\ pc' = [pc EXCEPT ![t] = "dead"]
       /\ UNCHANGED tkilled

\* The rest of exit(): the joins return (every sibling gone, or the caller
\* itself flagged killed) and the process becomes ZOMBIE.
ExitEnds(t) ==
  /\ pc[t] = "exiting"
  /\ tkilled[t] \/ \A u \in Others(t) : ~Alive(u)
  /\ pstate' = "ZOMBIE"
  /\ pc' = [pc EXCEPT ![t] = "dead"]
  /\ UNCHANGED <<sig, handlers, hmasks, lockHeld, openMask, sends, tkilled, tf, backup, nest>>

\* usertrap's checks: p->killed first (exit), then t->killed (kthread_exit).
TrapKilled(t) ==
  /\ sig.killed \/ tkilled[t]
  /\ IF sig.killed THEN ExitStarts(t) ELSE KthreadExits(t)
  /\ UNCHANGED <<procVars, tf, backup, nest>>

-----------------------------------------------------------------------------
(***************************************************************************)
(* System calls and interrupts from user mode.  usertrap checks p->killed  *)
(* and t->killed on entry; each call leaves the thread in usertrap.        *)
(***************************************************************************)
InUser(t) == pc[t] = "user" /\ ~sig.killed /\ ~tkilled[t]

\* A trap whose kernel side changes nothing here (timer, other calls).
Interrupt(t) ==
  /\ pc[t] = "user"
  /\ pc' = [pc EXCEPT ![t] = "kret"]
  /\ UNCHANGED <<procVars, tkilled, tf, backup, nest>>

\* Entering usertrap with the process or the thread killed.
EnterKilled(t) ==
  /\ pc[t] = "user"
  /\ TrapKilled(t)

sigprocmask(t, m) ==
  /\ InUser(t)
  /\ CanLock(t)
  /\ sig' = IF ValidMask(m) THEN [sig EXCEPT !.mask = m] ELSE sig
  /\ pc' = [pc EXCEPT ![t] = "kret"]
  /\ UNCHANGED <<pstate, handlers, hmasks, lockHeld, openMask, sends, tkilled, tf, backup, nest>>

\* sigaction with a new action: reserved signal numbers are refused before
\* p->lock is taken; an invalid mask returns -1 with p->lock still held.
sigaction(t, s, h, m) ==
  /\ InUser(t)
  /\ CanLock(t) \/ s \in {SIGKILL, SIGSTOP}
  /\ CASE s \in {SIGKILL, SIGSTOP} -> UNCHANGED <<handlers, hmasks, lockHeld>>
       [] ~ValidMask(m) -> /\ lockHeld' = t
                           /\ UNCHANGED <<handlers, hmasks>>
       [] OTHER -> /\ handlers' = [handlers EXCEPT ![s] = h]
                   /\ hmasks' = [hmasks EXCEPT ![s] = m]
                   /\ UNCHANGED lockHeld
  /\ pc' = [pc EXCEPT ![t] = "kret"]
  /\ UNCHANGED <<pstate, sig, openMask, sends, tkilled, tf, backup, nest>>

\* The handler returns through the injected ecall: sigret copies the backup
\* over the trapframe.
sigret(t) ==
  /\ InUser(t)
  /\ tf[t] \notin {MAIN, JUNK}
  /\ tf' = [tf EXCEPT ![t] = backup[t]]
  /\ nest' = [nest EXCEPT ![t] = IF @ = <<>> THEN @ ELSE Front(@)]
  /\ pc' = [pc EXCEPT ![t] = "kret"]
  /\ UNCHANGED <<procVars, tkilled, backup>>

\* usertrap after the call: killed checks again, else on to usertrapret
\* (through yield() after a timer interrupt).
TrapRet(t) ==
  /\ pc[t] = "kret"
  /\ IF sig.killed \/ tkilled[t]
     THEN TrapKilled(t)
     ELSE /\ pc' = [pc EXCEPT ![t] = "sh"]
          /\ UNCHANGED <<procVars, tkilled, tf, backup, nest>>

-----------------------------------------------------------------------------
(***************************************************************************)
(* signals_handling(p), run by usertrapret under p->lock.                   *)
(***************************************************************************)

\* The loop over signal numbers from the i-th on, for thread t: a pending,
\* unmasked signal with SIG_DFL ends the loop in exit (the first time) or
\* kthread_exit; any other handler gets a frame: the counter goes up, the
\* mask is backed up at level 1 and replaced by the handler's mask, the
\* trapframe is saved and redirected, then the counter goes down and the
\* mask is restored from the backup; the pending bit is cleared.
RECURSIVE Deliver(_, _)
Deliver(r, i) ==
  IF i > Len(SortedSigs) \/ r.exit # "none" THEN r
  ELSE LET s == SortedSigs[i] IN
       IF s \in r.st.pending /\ s \notin r.st.mask
       THEN IF handlers[s] = SIG_DFL
            THEN [r EXCEPT !.exit = IF r.st.handling THEN "kthread_exit" ELSE "exit",
                           !.st.handling = TRUE]
            ELSE LET bk == IF r.st.counter + 1 = 1 THEN r.st.mask ELSE r.st.backup IN
                 Deliver([r EXCEPT !.st.backup = bk, !.st.mask = bk,
                                   !.st.pending = @ \ {s},
                                   !.backup = r.tf, !.tf = handlers[s],
                                   !.nest = Append(@, r.tf)], i + 1)
       ELSE Deliver(r, i + 1)

Parks_ignores_killed(t) == sig.stopped

\* handling_stop_cont's loop condition: still stopped and not killed.
Parks(t) == sig.stopped /\ ~sig.killed

\* handling_stop_cont then the loop; a thread that kept p->lock panics in
\* acquire().
signals_handling(t) ==
  /\ pc[t] \in {"sh", "stop_wait"}
  /\ IF lockHeld = t
     THEN /\ pc' = [pc EXCEPT ![t] = "panic"]
          /\ UNCHANGED <<procVars, tkilled, tf, backup, nest>>
     ELSE
     /\ CanLock(t)
     /\ IF Parks(t)
        THEN /\ pc[t] = "sh"
             /\ pc' = [pc EXCEPT ![t] = "stop_wait"]
             /\ UNCHANGED <<procVars, tkilled, tf, backup, nest>>
        ELSE
        LET st0 == IF sig.stopped /\ sig.killed THEN [sig EXCEPT !.stopped = FALSE] ELSE sig
            r == Deliver([st |-> st0, tf |-> tf[t], backup |-> backup[t],
                          nest |-> nest[t], exit |-> "none"], 1)
        IN /\ sig' = r.st
           /\ tf' = [tf EXCEPT ![t] = r.tf]
           /\ backup' = [backup EXCEPT ![t] = r.backup]
           /\ nest' = [nest EXCEPT ![t] = r.nest]
           /\ CASE r.exit = "exit" -> ExitStarts(t)
                [] r.exit = "kthread_exit" -> KthreadExits(t)
                [] OTHER -> /\ pc' = [pc EXCEPT ![t] = "user"]
                            /\ UNCHANGED tkilled
           /\ UNCHANGED <<pstate, handlers, hmasks, lockHeld, openMask, sends>>

\* A parked thread that finds the process still stopped releases p->lock,
\* yields and tries again.
StopSpin(t) ==
  /\ pc[t] = "stop_wait"
  /\ CanLock(t)
  /\ Parks(t)
  /\ UNCHANGED vars

\* A panic halts the machine.
Halted == \E t \in Threads : pc[t] = "panic"

\* Nothing of the process runs any more: it exited, or the kernel panicked.
Terminated ==
  /\ Halted \/ \A t \in Threads : pc[t] = "dead"
  /\ UNCHANGED vars

\* What a thread of the process does in the kernel once it got there.
KernelStep(t) ==
  \/ TrapRet(t) \/ signals_handling(t) \/ StopSpin(t) \/ ExitEnds(t)

\* What a thread running user code may do: a system call, or a timer
\* interrupt.
UserStep(t) ==
  \/ Interrupt(t) \/ EnterKilled(t) \/ sigret(t)
  \/ \E m \in Masks : sigprocmask(t, m)
  \/ \E s \in Sigs, h \in Handlers, m \in Masks : sigaction(t, s, h, m)

Next ==
  \/ /\ ~Halted
     /\ \/ \E s \in Sigs : kill(s)
        \/ \E t \in Threads : KernelStep(t) \/ UserStep(t)
  \/ Terminated

Spec == Init /\ [][Next]_vars

\* The scheduler keeps running every RUNNABLE thread (scheduler() scans all
\* of them round-robin) and the timer interrupts user code, so each thread
\* keeps taking its kernel steps and eventually traps from user mode.
\* Nothing forces a program to make any particular system call.
FairSpec == Spec /\ \A t \in Threads : WF_vars(KernelStep(t)) /\ WF_vars(Interrupt(t))

-----------------------------------------------------------------------------
(***************************************************************************)
(* Properties.                                                             *)
(***************************************************************************)

\* SIGKILL and SIGSTOP can never be blocked or rebound: not in the mask in
\* force, not in the mask kept for SIGCONT to restore, not in the mask any
\* configured handler or stop tag would install (sigprocmask, sigaction and
\* check_valid_mask, and every place kill() and signals_handling copy masks).
ReservedSignalsUnblocked ==
  /\ handlers[SIGKILL] = SIG_DFL /\ handlers[SIGSTOP] = SIG_DFL
  /\ \A m \in {sig.mask, sig.backup} \cup {hmasks[s] : s \in {x \in Sigs : handlers[x] # SIG_DFL}} :
       {SIGKILL, SIGSTOP} \cap m = {}

\* A process flagged killed eventually has no thread left: every thread
\* notices p->killed at a trap, or in the stop loop, and exit's joins end.
KilledProcessExits ==
  sig.killed ~> \A t \in Threads : pc[t] = "dead"

\* A kernel panic (acquire() of a lock the CPU already holds) never happens.
NoPanic == \A t \in Threads : pc[t] # "panic"

\* sigret brings a thread back to where the signal interrupted it: once it
\* has returned from every handler it entered, it runs its own code again
\* (the user-handler trampoline and sigret; spec: "control returns to B's
\* original instruction stream unchanged").
ResumesOwnCode == \A t \in Threads : nest[t] = <<>> => tf[t] = MAIN

\* User mode is only ever entered at the program's own code or at the
\* address of a handler the program installed, never at a handler tag
\* (user_signal_handlng jumps to p->signal_handlers[signum]).
RunsOnlyUserCode == \A t \in Threads : tf[t] \in {MAIN} \cup UserAddr

\* A signal the target blocks is kept pending rather than acted on or lost
\* (kill(); spec: "the signal becomes pending but handler/kill logic does
\* not run until the mask bit is cleared").
MaskedSignalBecomesPending ==
  [][\A s \in Sigs :
       kill(s) /\ s \in sig.mask /\ handlers[s] = SIG_DFL => s \in sig'.pending]_vars

\* A thread that has begun exit() finishes it: kill_all_threads flags the
\* others killed, and each of them gets to kthread_exit so that the joins
\* in exit() return.
ExitCompletes == \A t \in Threads : pc[t] = "exiting" ~> pc[t] = "dead"



\* A stop keeps the mask to go back to: while a stop level is open
\* (handling_signal_counter >= 1 after kill), signal_mask_backup holds the
\* mask in force when the outermost level opened, so the SIGCONT arm of
\* kill, which restores signal_mask_backup, gives that mask back.
StopSavesMask == sig.counter >= 1 => sig.backup = openMask

=============================================================================
