------------------------------ MODULE KernelLock ------------------------------
(***************************************************************************)
(* The big lock of multiprocessor kernels (sys/kern/kern_lock.c) together  *)
(* with an adaptive mutex (sys/kern/kern_mutex.c).                         *)
(*                                                                         *)
(* The lock is a recursive spin lock that belongs to a CPU: interrupt      *)
(* handlers take it on top of the LWP that they interrupt, whose l_blcnt   *)
(* they use.  An LWP that sleeps gives it up.  There is no order between   *)
(* it and the mutexes: whoever holds it and spins for a mutex must sleep   *)
(* when the owner of the mutex spins for the big lock, and learns that     *)
(* from ci_biglock_wanted.  Mutex has the details of the mutex, of which   *)
(* this module keeps the owner and the sleepers.                           *)
(*                                                                         *)
(* What is done at splvm is one step of its CPU.  The LWPs take and        *)
(* release the locks in any order; "ops" bounds how often.                 *)
(*                                                                         *)
(* A definition marked "Slip" is the one that follows it with a plausible  *)
(* mistake: the properties are shown to reject it.                         *)
(***************************************************************************)
EXTENDS Naturals, FiniteSets

CONSTANTS
    CPU, LWP, None,
    MaxOps,      \* bound: locks that an LWP takes
    MaxIntr,     \* bound: interrupts of a CPU
    MaxPreempt,  \* bound: preemptions
    MaxHolds     \* bound: recursive holds of an LWP

KernelLockAssumption ==
    /\ None \notin CPU \cup LWP
    /\ {MaxOps, MaxIntr, MaxPreempt} \subseteq Nat /\ MaxHolds \in Nat \ {0}

VARIABLES
    kernel_lock,  \* TRUE when it is locked
    count,        \* ci_biglock_count
    wanted,       \* ci_biglock_wanted
    blcnt,        \* l_blcnt
    cur,          \* ci_curlwp, or None when the CPU is idle
    lw,           \* an LWP's place and locals
    intr,         \* the interrupt handler on each CPU
    mtx_owner,
    preempts

vars == <<kernel_lock, count, wanted, blcnt, cur, lw, intr, mtx_owner,
          preempts>>
lockVars == <<kernel_lock, count, wanted, blcnt>>

\* pc, ci, owant, the holds asked for, where _kernel_lock() returns to.
Fresh == [pc |-> "new", ci |-> None, owant |-> None, n |-> 0, ret |-> "new",
          ops |-> MaxOps]

\* The process context of the CPU c: no interrupt handler runs on top.
On(c, l, p) == cur[c] = l /\ intr[c].pc = "none" /\ lw[l].pc = p

Goto(l, p) == lw' = [lw EXCEPT ![l].pc = p]

\* The CPU takes another LWP that can run, or idles.
Switch(c, l) ==
    \/ \E k \in LWP \ {l} : /\ lw[k].pc # "sleep" /\ lw[k].pc # "done"
                            /\ \A d \in CPU : cur[d] # k
                            /\ cur' = [cur EXCEPT ![c] = k]
    \/ cur' = [cur EXCEPT ![c] = None]

-----------------------------------------------------------------------------
(* _kernel_lock() up to the spin loop, for n holds.                        *)

\* ci_biglock_count becomes n for ci, l_blcnt n for l.
Take(ci, l, n) ==
    /\ kernel_lock' = TRUE
    /\ count' = [count EXCEPT ![ci] = n]
    /\ blcnt' = [blcnt EXCEPT ![l] = n]

Again(ci, l, n) ==
    /\ count' = [count EXCEPT ![ci] = @ + n]
    /\ blcnt' = [blcnt EXCEPT ![l] = @ + n]
    /\ UNCHANGED <<kernel_lock, wanted>>

\* By the LWP l; it returns to r.
KLock(c, l, n, r, o) ==
    IF count[c] # 0
    THEN Again(c, l, n) /\ lw' = [lw EXCEPT ![l].pc = r, ![l].ops = o]
    ELSE IF ~kernel_lock
    THEN /\ Take(c, l, n) /\ UNCHANGED wanted
         /\ lw' = [lw EXCEPT ![l].pc = r, ![l].ops = o]
    ELSE /\ wanted' = [wanted EXCEPT ![c] = l]
         /\ lw' = [lw EXCEPT ![l] =
                [pc |-> "kspin", ci |-> c, owant |-> wanted[c], n |-> n,
                 ret |-> r, ops |-> o]]
         /\ UNCHANGED <<kernel_lock, count, blcnt>>

\* The lock was seen free and is taken.
KSpin(c, l) ==
    /\ On(c, l, "kspin") /\ ~kernel_lock
    /\ Take(lw[l].ci, l, lw[l].n)
    /\ Goto(l, "kswap")
    /\ UNCHANGED <<wanted, cur, intr, mtx_owner, preempts>>

\* ci_biglock_wanted is put back, after splx().
KSwap(c, l) ==
    /\ On(c, l, "kswap")
    /\ wanted' = [wanted EXCEPT ![lw[l].ci] = lw[l].owant]
    /\ Goto(l, lw[l].ret)
    /\ UNCHANGED <<kernel_lock, count, blcnt, cur, intr, mtx_owner, preempts>>

\* _kernel_unlock() of n holds.
KUnlockSlip(c, l, n) ==
    /\ kernel_lock' = FALSE
    /\ count' = [count EXCEPT ![c] = @ - n]
    /\ blcnt' = [blcnt EXCEPT ![l] = @ - n]
    /\ UNCHANGED wanted

KUnlock(c, l, n) ==
    /\ kernel_lock' = (kernel_lock /\ count[c] # n)
    /\ count' = [count EXCEPT ![c] = @ - n]
    /\ blcnt' = [blcnt EXCEPT ![l] = @ - n]
    /\ UNCHANGED wanted

-----------------------------------------------------------------------------
(* What the LWPs do.                                                       *)

Lock(c, l) ==
    /\ On(c, l, "run") /\ lw[l].ops > 0 /\ blcnt[l] < MaxHolds
    /\ KLock(c, l, 1, "run", lw[l].ops - 1)
    /\ UNCHANGED <<cur, intr, mtx_owner, preempts>>

Unlock(c, l) ==
    /\ On(c, l, "run") /\ blcnt[l] > 0
    /\ KUnlock(c, l, 1)
    /\ UNCHANGED <<cur, lw, intr, mtx_owner, preempts>>

MutexEnter(c, l) ==
    /\ On(c, l, "run") /\ lw[l].ops > 0 /\ mtx_owner # l
    /\ lw' = [lw EXCEPT ![l].pc = "mutex", ![l].ops = @ - 1]
    /\ UNCHANGED <<lockVars, cur, intr, mtx_owner, preempts>>

\* mutex_onproc(): the owner runs and will not wait for the big lock.
Onproc(l) == \E c \in CPU : cur[c] = l /\ wanted[c] # l

MutexTake(c, l) ==
    /\ On(c, l, "mutex") /\ mtx_owner = None
    /\ mtx_owner' = l
    /\ Goto(l, "run")
    /\ UNCHANGED <<lockVars, cur, intr, preempts>>

\* turnstile_block(): all holds of the big lock are given up.
MutexBlock(c, l) ==
    /\ On(c, l, "mutex") /\ mtx_owner # None /\ ~Onproc(mtx_owner)
    /\ IF blcnt[l] = 0 THEN UNCHANGED lockVars
       ELSE KUnlock(c, l, blcnt[l])
    /\ lw' = [lw EXCEPT ![l].pc = "sleep", ![l].n = blcnt[l]]
    /\ Switch(c, l)
    /\ UNCHANGED <<intr, mtx_owner, preempts>>

\* The end of sleepq_block(): the holds are taken back.
Awake(c, l) ==
    /\ On(c, l, "awake")
    /\ IF lw[l].n = 0 THEN Goto(l, "mutex") /\ UNCHANGED lockVars
       ELSE KLock(c, l, lw[l].n, "mutex", lw[l].ops)
    /\ UNCHANGED <<cur, intr, mtx_owner, preempts>>

\* mutex_exit() wakes all that sleep.
MutexExit(c, l) ==
    /\ On(c, l, "run") /\ mtx_owner = l
    /\ mtx_owner' = None
    /\ lw' = [k \in LWP |-> IF lw[k].pc = "sleep"
                            THEN [lw[k] EXCEPT !.pc = "awake"] ELSE lw[k]]
    /\ UNCHANGED <<lockVars, cur, intr, preempts>>

Finish(c, l) ==
    /\ On(c, l, "run") /\ blcnt[l] = 0 /\ mtx_owner # l
    /\ Goto(l, "done")
    /\ Switch(c, l)
    /\ UNCHANGED <<lockVars, intr, mtx_owner, preempts>>

\* An idle CPU takes an LWP; a new LWP begins.
Dispatch(c) ==
    /\ cur[c] = None
    /\ Switch(c, None) /\ cur'[c] # None
    /\ UNCHANGED <<lockVars, lw, intr, mtx_owner, preempts>>

Begin(c, l) ==
    /\ On(c, l, "new")
    /\ Goto(l, "run")
    /\ UNCHANGED <<lockVars, cur, intr, mtx_owner, preempts>>

\* kpreempt(): not from an LWP that holds or wants the big lock.
PreemptSlip(c, l) ==
    /\ cur[c] = l /\ intr[c].pc = "none" /\ preempts < MaxPreempt
    /\ blcnt[l] = 0
    /\ preempts' = preempts + 1
    /\ Switch(c, l)
    /\ UNCHANGED <<lockVars, lw, intr, mtx_owner>>

Preempt(c, l) ==
    /\ cur[c] = l /\ intr[c].pc = "none" /\ preempts < MaxPreempt
    /\ blcnt[l] = 0 /\ wanted[c] = None
    /\ preempts' = preempts + 1
    /\ Switch(c, l)
    /\ UNCHANGED <<lockVars, lw, intr, mtx_owner>>

-----------------------------------------------------------------------------
(* Interrupt handlers that are not MPSAFE: _kernel_lock(1), the handler,   *)
(* _kernel_unlock(1), as the LWP that was interrupted.                     *)

IntrLock(c, l) ==
    /\ cur[c] = l /\ intr[c].pc = "none" /\ intr[c].left > 0
    /\ IF count[c] # 0
       THEN /\ Again(c, l, 1)
            /\ intr' = [intr EXCEPT ![c] =
                   [pc |-> "held", owant |-> None, left |-> @.left - 1]]
       ELSE IF ~kernel_lock
       THEN /\ Take(c, l, 1) /\ UNCHANGED wanted
            /\ intr' = [intr EXCEPT ![c] =
                   [pc |-> "held", owant |-> None, left |-> @.left - 1]]
       ELSE /\ wanted' = [wanted EXCEPT ![c] = l]
            /\ intr' = [intr EXCEPT ![c] =
                   [pc |-> "spin", owant |-> wanted[c], left |-> @.left - 1]]
            /\ UNCHANGED <<kernel_lock, count, blcnt>>
    /\ UNCHANGED <<cur, lw, mtx_owner, preempts>>

IntrSpin(c, l) ==
    /\ cur[c] = l /\ intr[c].pc = "spin" /\ ~kernel_lock
    /\ Take(c, l, 1)
    /\ intr' = [intr EXCEPT ![c].pc = "swap"]
    /\ UNCHANGED <<wanted, cur, lw, mtx_owner, preempts>>

IntrSwapSlip(c, l) ==
    /\ cur[c] = l /\ intr[c].pc = "swap"
    /\ wanted' = [wanted EXCEPT ![c] = None]
    /\ intr' = [intr EXCEPT ![c].pc = "held", ![c].owant = None]
    /\ UNCHANGED <<kernel_lock, count, blcnt, cur, lw, mtx_owner, preempts>>

IntrSwap(c, l) ==
    /\ cur[c] = l /\ intr[c].pc = "swap"
    /\ wanted' = [wanted EXCEPT ![c] = intr[c].owant]
    /\ intr' = [intr EXCEPT ![c].pc = "held", ![c].owant = None]
    /\ UNCHANGED <<kernel_lock, count, blcnt, cur, lw, mtx_owner, preempts>>

IntrUnlock(c, l) ==
    /\ cur[c] = l /\ intr[c].pc = "held"
    /\ KUnlock(c, l, 1)
    /\ intr' = [intr EXCEPT ![c].pc = "none"]
    /\ UNCHANGED <<cur, lw, mtx_owner, preempts>>

-----------------------------------------------------------------------------
Init ==
    /\ kernel_lock = FALSE
    /\ count = [c \in CPU |-> 0]
    /\ wanted = [c \in CPU |-> None]
    /\ blcnt = [l \in LWP |-> 0]
    /\ cur = [c \in CPU |-> None]
    /\ lw = [l \in LWP |-> Fresh]
    /\ intr = [c \in CPU |-> [pc |-> "none", owant |-> None, left |-> MaxIntr]]
    /\ mtx_owner = None
    /\ preempts = 0

\* What the CPU c does for itself: an interrupt or a preemption only comes.
Step(c) ==
    \/ Dispatch(c)
    \/ \E l \in LWP :
        \/ KSpin(c, l) \/ KSwap(c, l) \/ Lock(c, l) \/ Unlock(c, l)
        \/ MutexEnter(c, l) \/ MutexTake(c, l) \/ MutexBlock(c, l)
        \/ Awake(c, l) \/ MutexExit(c, l) \/ Finish(c, l) \/ Begin(c, l)
        \/ IntrSpin(c, l) \/ IntrSwap(c, l) \/ IntrUnlock(c, l)

Next ==
    \E c \in CPU :
        \/ Step(c)
        \/ \E l \in LWP : IntrLock(c, l) \/ Preempt(c, l)

Spec == Init /\ [][Next]_vars

\* Every CPU goes on running.
FairSpec == Spec /\ \A c \in CPU : WF_vars(Step(c))

-----------------------------------------------------------------------------
\* The big lock is held by one CPU at most, on behalf of the LWP that runs
\* there: the CPU's and the LWP's counts agree through recursion, interrupts,
\* sleeps and preemption, and an LWP that does not run has no holds.
CountsAgree ==
    /\ kernel_lock = (\E c \in CPU : count[c] > 0)
    /\ \A c, d \in CPU : count[c] > 0 /\ count[d] > 0 => c = d
    /\ \A c \in CPU : count[c] = IF cur[c] = None THEN 0 ELSE blcnt[cur[c]]
    /\ \A l \in LWP : blcnt[l] > 0 => \E c \in CPU : cur[c] = l

\* ci_biglock_wanted names an LWP only while it, or an interrupt handler on
\* top of it, waits on that CPU; and always then.
WantedExact ==
    \A c \in CPU :
        LET spins == \/ intr[c].pc \in {"spin", "swap"}
                     \/ /\ cur[c] # None
                        /\ lw[cur[c]].pc \in {"kspin", "kswap"}
        IN  wanted[c] = IF spins THEN cur[c] ELSE None

\* What _kernel_lock() and its users rely on.
KernelLockSafe == CountsAgree /\ WantedExact

(***************************************************************************)
(* What is inductive, besides: an LWP runs on one CPU at most; one that    *)
(* waits for the big lock stays on its CPU, and has no holds but those of  *)
(* an interrupt handler on top of it; and a handler puts back into         *)
(* ci_biglock_wanted the LWP that it found there waiting.                  *)
(***************************************************************************)
LwpState ==
    [pc: {"new", "run", "kspin", "kswap", "mutex", "sleep", "awake", "done"},
     ci: CPU \cup {None}, owant: LWP \cup {None}, n: Nat,
     ret: {"new", "run", "mutex"}, ops: Nat]

IntrState == [pc: {"none", "spin", "swap", "held"}, owant: LWP \cup {None},
              left: Nat]

TypeOK ==
    /\ kernel_lock \in BOOLEAN
    /\ count \in [CPU -> Nat]
    /\ wanted \in [CPU -> LWP \cup {None}]
    /\ blcnt \in [LWP -> Nat]
    /\ cur \in [CPU -> LWP \cup {None}]
    /\ lw \in [LWP -> LwpState]
    /\ intr \in [CPU -> IntrState]
    /\ mtx_owner \in LWP \cup {None}
    /\ preempts \in Nat

CurInv ==
    /\ \A c, d \in CPU : cur[c] # None /\ cur[c] = cur[d] => c = d
    /\ \A c \in CPU : IF cur[c] = None THEN intr[c].pc = "none"
                      ELSE lw[cur[c]].pc \notin {"sleep", "done"}

LwpSpins(l) == lw[l].pc \in {"kspin", "kswap"}

SpinInv ==
    \A l \in LWP :
        LwpSpins(l) =>
            /\ lw[l].ci \in CPU /\ cur[lw[l].ci] = l
            /\ lw[l].owant = None /\ lw[l].n > 0
            /\ lw[l].pc = "kspin" =>
                  count[lw[l].ci] =
                      IF intr[lw[l].ci].pc \in {"swap", "held"} THEN 1 ELSE 0

IntrInv ==
    \A c \in CPU :
        /\ intr[c].pc = "spin" => count[c] = 0
        /\ intr[c].pc \in {"swap", "held"} => count[c] > 0
        /\ intr[c].pc \in {"spin", "swap"} =>
              intr[c].owant = IF LwpSpins(cur[c]) THEN cur[c] ELSE None

KernelLockInv == TypeOK /\ CurInv /\ SpinInv /\ IntrInv /\ KernelLockSafe

\* The big lock and the mutex may be taken in any order: nobody ever waits
\* for somebody who waits for him.
AllFinish == <>(\A l \in LWP : lw[l].pc = "done")
=============================================================================
