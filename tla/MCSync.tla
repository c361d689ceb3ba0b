------------------------------- MODULE MCSync -------------------------------
(***************************************************************************)
(* The locks of the kernel, condition variables, callout_halt() and        *)
(* RUN_ONCE(), one at a time: "part" names the component that a behaviour  *)
(* is about. The mutex is the module extended, and stays in its initial    *)
(* state in the behaviours of the others; the variables of the others are  *)
(* None when they are not the part.                                        *)
(***************************************************************************)
EXTENDS Mutex, TLC

CONSTANTS
    CPU, Scheduler, None, MaxItems, MaxOps, MaxIntr, MaxPreempt, MaxHolds,
    MaxSchedules, Control, Error, NoError

VARIABLES
    part,
    mtx, sq_mutex, cv_sleepq, moving, items, cv_pc, wait, timo, sig, err,
    kernel_lock, count, klock_wanted, blcnt, cur, lw, intr, klock_mtx_owner,
    preempts,
    ts_owner, ts_readers, ts_wanted, act, free, queue, inheritor, teprio,
    l_ts, l_pi_lenders, l_inheritedprio, l_wchan, pri, ts_pc, want, mode,
    at, prio,
    bound, pending, fired, invoking, c_cpu, cc_active, cc_nwait, cc_sleepq,
    co_pc, quiet, schedules,
    o_status, o_error, runs, once_pc, once, got

MutexVars == <<mtx_owner, sleepq, tc_mutex, onproc, pc, owner>>
CondVarVars == <<mtx, sq_mutex, cv_sleepq, moving, items, cv_pc, wait, timo,
                 sig, err>>
KernelLockVars == <<kernel_lock, count, klock_wanted, blcnt, cur, lw, intr,
                    klock_mtx_owner, preempts>>
TurnstileVars == <<ts_owner, ts_readers, ts_wanted, act, free, queue,
                   inheritor, teprio, l_ts, l_pi_lenders, l_inheritedprio,
                   l_wchan, pri, ts_pc, want, mode, at, prio>>
CalloutVars == <<bound, pending, fired, invoking, c_cpu, cc_active,
                 cc_nwait, cc_sleepq, co_pc, quiet, schedules>>
OnceVars == <<o_status, o_error, runs, once_pc, once, got>>
partsvars == <<part, MutexVars, CondVarVars, KernelLockVars, TurnstileVars,
               CalloutVars, OnceVars>>

CV == INSTANCE CondVar WITH
    Waits <- {"cv_wait", "cv_wait_sig", "cv_timedwait", "cv_timedwait_sig"},
    sleepq <- cv_sleepq, pc <- cv_pc
KL == INSTANCE KernelLock WITH
    wanted <- klock_wanted, mtx_owner <- klock_mtx_owner
TSChange == INSTANCE Turnstile WITH
    Lwp <- LWP, Mutexes <- {}, RWLocks <- {2}, MaxPri <- 2, Changes <- TRUE,
    Spurious <- FALSE, owner <- ts_owner, readers <- ts_readers,
    wanted <- ts_wanted, pc <- ts_pc
TS == INSTANCE Turnstile WITH
    Lwp <- LWP, Mutexes <- {1, 2}, RWLocks <- {}, MaxPri <- 2,
    Changes <- FALSE, Spurious <- TRUE, owner <- ts_owner,
    readers <- ts_readers, wanted <- ts_wanted, pc <- ts_pc
CO == INSTANCE Callout WITH
    pc <- co_pc
ON == INSTANCE Once WITH
    pc <- once_pc

ASSUME PartsAssumption ==
    /\ CV!CondVarAssumption
    /\ KL!KernelLockAssumption
    /\ TSChange!TurnstileAssumption
    /\ TS!TurnstileAssumption
    /\ CO!CalloutAssumption
    /\ ON!OnceAssumption

MutexOff == Init
CondVarOff ==
    /\ mtx = None /\ sq_mutex = None /\ cv_sleepq = None /\ moving = None
    /\ items = None /\ cv_pc = None /\ wait = None /\ timo = None
    /\ sig = None /\ err = None
KernelLockOff ==
    /\ kernel_lock = None /\ count = None /\ klock_wanted = None
    /\ blcnt = None /\ cur = None /\ lw = None /\ intr = None
    /\ klock_mtx_owner = None /\ preempts = None
TurnstileOff ==
    /\ ts_owner = None /\ ts_readers = None /\ ts_wanted = None
    /\ act = None /\ free = None /\ queue = None /\ inheritor = None
    /\ teprio = None /\ l_ts = None /\ l_pi_lenders = None
    /\ l_inheritedprio = None /\ l_wchan = None /\ pri = None
    /\ ts_pc = None /\ want = None /\ mode = None /\ at = None
    /\ prio = None
CalloutOff ==
    /\ bound = None /\ pending = None /\ fired = None /\ invoking = None
    /\ c_cpu = None /\ cc_active = None /\ cc_nwait = None
    /\ cc_sleepq = None /\ co_pc = None /\ quiet = None /\ schedules = None
OnceOff ==
    /\ o_status = None /\ o_error = None /\ runs = None /\ once_pc = None
    /\ once = None /\ got = None

PartsInit ==
    \/ /\ part = "mutex" /\ Init
       /\ CondVarOff /\ KernelLockOff /\ TurnstileOff /\ CalloutOff /\
          OnceOff
    \/ /\ part = "condvar" /\ CV!Init
       /\ MutexOff /\ KernelLockOff /\ TurnstileOff /\ CalloutOff /\ OnceOff
    \/ /\ part = "kernel lock" /\ KL!Init
       /\ MutexOff /\ CondVarOff /\ TurnstileOff /\ CalloutOff /\ OnceOff
    \/ /\ part = "turnstile, priorities change" /\ TSChange!Init
       /\ MutexOff /\ CondVarOff /\ KernelLockOff /\ CalloutOff /\ OnceOff
    \/ /\ part = "turnstile" /\ TS!Init
       /\ MutexOff /\ CondVarOff /\ KernelLockOff /\ CalloutOff /\ OnceOff
    \/ /\ part = "callout" /\ CO!Init
       /\ MutexOff /\ CondVarOff /\ KernelLockOff /\ TurnstileOff /\ OnceOff
    \/ /\ part = "once" /\ ON!Init
       /\ MutexOff /\ CondVarOff /\ KernelLockOff /\ TurnstileOff /\
          CalloutOff


PartsNext ==
    \/ /\ part = "mutex" /\ Next
       /\ UNCHANGED <<part, CondVarVars, KernelLockVars, TurnstileVars, CalloutVars,
          OnceVars>>
    \/ /\ part = "condvar" /\ CV!Next
       /\ UNCHANGED <<part, MutexVars, KernelLockVars, TurnstileVars, CalloutVars,
          OnceVars>>
    \/ /\ part = "kernel lock" /\ KL!Next
       /\ UNCHANGED <<part, MutexVars, CondVarVars, TurnstileVars, CalloutVars, OnceVars>>
    \/ /\ part = "turnstile, priorities change" /\ TSChange!Next
       /\ UNCHANGED <<part, MutexVars, CondVarVars, KernelLockVars, CalloutVars,
          OnceVars>>
    \/ /\ part = "turnstile" /\ TS!Next
       /\ UNCHANGED <<part, MutexVars, CondVarVars, KernelLockVars, CalloutVars,
          OnceVars>>
    \/ /\ part = "callout" /\ CO!Next
       /\ UNCHANGED <<part, MutexVars, CondVarVars, KernelLockVars, TurnstileVars,
          OnceVars>>
    \/ /\ part = "once" /\ ON!Next
       /\ UNCHANGED <<part, MutexVars, CondVarVars, KernelLockVars, TurnstileVars,
          CalloutVars>>

PartsSpec == PartsInit /\ [][PartsNext]_partsvars

\* cv_wait(), cv_timedwait() and their _sig forms. No wakeup is lost: while
\* LWPs sleep, there is for every item an LWP that is on its way to it or on
\* its way to wake another, although a wakeup may reach an LWP that has
\* timed out or been interrupted and cv_signal() looks at the queue without
\* a lock. And a sleep timeout works only in the sleep that started it.
CondVarSafe == part = "condvar" => CV!CondVarSafe

\* _kernel_lock(): one CPU at most holds the big lock, on behalf of the LWP
\* that runs there; the CPU's and the LWP's counts agree through recursion,
\* interrupts, sleeps and preemption, and ci_biglock_wanted names an LWP
\* exactly while it, or an interrupt handler on top of it, waits on that
\* CPU.
KernelLockSafe == part = "kernel lock" => KL!KernelLockSafe

\* turnstile_block() and turnstile_wakeup(). However turnstiles change
\* hands, an LWP that does not sleep has one to itself, and a lock has as
\* many as it has waiters. An LWP runs with a lent priority exactly as long
\* as it holds a lock whose waiters lent it, and with the highest of them.
\* And a queue has the highest priority first, whenever a sleeper's priority
\* changes.
TurnstileSafe ==
    /\ part = "turnstile" => TS!OwnTurnstile
    /\ part = "turnstile, priorities change" => TSChange!OwnTurnstile
    /\ part = "turnstile" => TS!LendersExact
    /\ part = "turnstile, priorities change" => TSChange!LendersExact
    /\ part = "turnstile, priorities change" => TSChange!SortedQueues

\* callout_halt(): an LWP sleeps in it only on a CPU whose softclock runs a
\* function, and is counted there, so that it is woken; and if nothing has
\* scheduled a bound callout since the call, then on return it is not
\* pending and its function does not run on any CPU.
CalloutSafe == part = "callout" => CO!CalloutSafe

\* RUN_ONCE() and _run_once(): a function is called once, however many
\* callers race, and nobody gets past RUN_ONCE() before it has returned or
\* with another result than its.
OnceSafe == part = "once" => ON!ExactlyOnce

\* The LWPs are interchangeable, and so are the CPUs.
Symmetry == Permutations(LWP) \cup Permutations(CPU)

=============================================================================
