-------------------------------- MODULE Sbrk ---------------------------------
(***************************************************************************)
(* The size of one process's memory, p->sz, as its threads see it:        *)
(* sys_sbrk (kernel/sysproc.c) with growproc (kernel/proc.c), and the two  *)
(* reads of the parent's p->sz in fork (kernel/proc.c).                    *)
(*                                                                         *)
(* growproc runs under p->lock, and every write of p->sz is inside it, so  *)
(* its read-modify-write of p->sz is one step.  sys_sbrk reads p->sz for   *)
(* its return value before growproc takes the lock, and fork reads it for  *)
(* uvmcopy and again for np->sz without taking it: those reads are steps   *)
(* of their own.  Sizes are in pages; uvmalloc and uvmdealloc (kernel/vm.c,*)
(* the address-space collaborator) are reduced to the size they return.   *)
(***************************************************************************)
EXTENDS Integers

CONSTANTS
  NTHREAD,   \* threads of the process
  Deltas,    \* the arguments n of sbrk(n) the program passes
  InitSz,    \* p->sz when the threads start
  MaxSz      \* pages uvmalloc can map before memory runs out

Thr == 1 .. NTHREAD
NoSize == -1

VARIABLES
  sz,        \* p->sz
  pc,        \* "user", "sbrk" (addr read, growproc next), "fork" (copied)
  n,         \* sys_sbrk's argument
  addr,      \* sys_sbrk's addr: p->sz read before growproc
  base,      \* ghost: growproc's sz, the break it grew or shrank from
  ret,       \* what the last sbrk returned (-1 on failure)
  copied,    \* the p->sz uvmcopy copied the parent's memory up to
  childsz    \* the np->sz fork gave the child (NoSize before fork sets it)

vars == <<sz, pc, n, addr, base, ret, copied, childsz>>

TypeOK ==
  /\ sz \in Nat /\ pc \in [Thr -> {"user", "sbrk", "fork"}]
  /\ n \in [Thr -> Deltas \cup {0}]
  /\ addr \in [Thr -> Nat] /\ base \in [Thr -> Nat] /\ ret \in [Thr -> Nat \cup {-1}]
  /\ copied \in [Thr -> Nat \cup {NoSize}] /\ childsz \in [Thr -> Nat \cup {NoSize}]

Init ==
  /\ sz = InitSz
  /\ pc = [t \in Thr |-> "user"]
  /\ n = [t \in Thr |-> 0]
  /\ addr = [t \in Thr |-> 0]
  /\ base = [t \in Thr |-> 0]
  /\ ret = [t \in Thr |-> -1]
  /\ copied = [t \in Thr |-> NoSize]
  /\ childsz = [t \in Thr |-> NoSize]

-----------------------------------------------------------------------------

\* uvmdealloc(pagetable, sz, sz + n): growproc's sz is a 32-bit uint, so
\* shrinking below zero wraps to a size above the old one, which
\* uvmdealloc leaves as it is.
Dealloc(s, k) == IF s + k >= 0 THEN s + k ELSE s

\* sys_sbrk: argint(0, &n), then addr = myproc()->sz, outside p->lock.
sys_sbrk(t, k) ==
  /\ pc[t] = "user"
  /\ pc' = [pc EXCEPT ![t] = "sbrk"]
  /\ n' = [n EXCEPT ![t] = k]
  /\ addr' = [addr EXCEPT ![t] = sz]
  /\ UNCHANGED <<sz, base, ret, copied, childsz>>

\* growproc(n) under p->lock, and sys_sbrk returning addr, or -1 when
\* uvmalloc runs out of memory (always past MaxSz, at any time before it).
growproc(t) ==
  /\ pc[t] = "sbrk"
  /\ base' = [base EXCEPT ![t] = sz]
  /\ pc' = [pc EXCEPT ![t] = "user"]
  /\ \/ /\ n[t] > 0 /\ sz + n[t] <= MaxSz
        /\ sz' = sz + n[t]
        /\ ret' = [ret EXCEPT ![t] = addr[t]]
     \/ /\ n[t] > 0
        /\ ret' = [ret EXCEPT ![t] = -1]
        /\ UNCHANGED sz
     \/ /\ n[t] <= 0
        /\ sz' = Dealloc(sz, n[t])
        /\ ret' = [ret EXCEPT ![t] = addr[t]]
  /\ UNCHANGED <<n, addr, copied, childsz>>

\* fork, once allocproc and allocthread succeed: uvmcopy(p->pagetable,
\* np->pagetable, p->sz) copies the parent's pages (or fails, and fork
\* frees the child and returns -1).
ForkCopy(t) ==
  /\ pc[t] = "user"
  /\ \/ /\ pc' = [pc EXCEPT ![t] = "fork"]
        /\ copied' = [copied EXCEPT ![t] = sz]
     \/ UNCHANGED <<pc, copied>>
  /\ childsz' = [childsz EXCEPT ![t] = NoSize]
  /\ UNCHANGED <<sz, n, addr, base, ret>>

\* fork, after uvmcopy: np->sz = p->sz, read again; the rest of fork
\* leaves p->sz alone.
ForkSetSz(t) ==
  /\ pc[t] = "fork"
  /\ childsz' = [childsz EXCEPT ![t] = sz]
  /\ pc' = [pc EXCEPT ![t] = "user"]
  /\ UNCHANGED <<sz, n, addr, base, ret, copied>>

Next ==
  \E t \in Thr :
    \/ \E k \in Deltas : sys_sbrk(t, k)
    \/ growproc(t) \/ ForkCopy(t) \/ ForkSetSz(t)

Spec == Init /\ [][Next]_vars

-----------------------------------------------------------------------------

\* sbrk(n) returns the program break its own growproc started from: the
\* region [ret, ret + n) a successful sbrk hands to malloc is the one this
\* call added, even when another thread of the process calls sbrk at the
\* same time.
SbrkReturnsOldBreak == \A t \in Thr : ret[t] # -1 => ret[t] = base[t]

\* The child fork creates is given as its p->sz the size of the memory
\* uvmcopy copied into it, even while another thread of the parent grows
\* or shrinks it; freeproc later unmaps np->sz bytes of the child.
ChildSizeIsCopied ==
  \A t \in Thr : childsz[t] # NoSize => childsz[t] = copied[t]

=============================================================================
