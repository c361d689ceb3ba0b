------------------------------- MODULE MCLive -------------------------------
(***************************************************************************)
(* What must happen in the end, one component at a time: "part" names the  *)
(* component that a behaviour is about; the others stay as they are        *)
(* initially. Once is the module extended.                                 *)
(*                                                                         *)
(* The fairness is that of the components. In a behaviour of one of them   *)
(* the steps of the others never are enabled, so one formula may be fair   *)
(* to a step of each. LWPs, and items of work, are interchangeable: what   *)
(* is checked for one holds for all.                                       *)
(***************************************************************************)
EXTENDS Once, TLC

CONSTANTS
    l1, l2, l3, c1, c2, w1, w2, w3, o1, m1, a, b, net, h1, xc, idle,
    ExitWork, None

VARIABLES
    part,
    bound, pending, fired, invoking, c_cpu, cc_active, cc_nwait, cc_sleepq,
    co_pc, co_quiet, schedules,
    wq_state, wq_func, wk_next, q_first, q_last, q_cv, worker, wk, next,
    fini, queued,
    curlwp, stat, si_pc, after, ast, want, softints, si_q, si_active,
    sh_flags, sh_func, si, sh, si_quiet, victim, xcall, dropped,
    fli, rwl, fs_state, handlers, running, suspend, phase, smount, fs_wait,
    stack

OnceVars == <<o_status, o_error, runs, pc, once, got>>
CalloutVars == <<bound, pending, fired, invoking, c_cpu, cc_active,
                 cc_nwait, cc_sleepq, co_pc, co_quiet, schedules>>
WorkQueueVars == <<wq_state, wq_func, wk_next, q_first, q_last, q_cv,
                   worker, wk, next, fini, queued>>
SoftIntVars == <<curlwp, stat, si_pc, after, ast, want, softints, si_q,
                 si_active, sh_flags, sh_func, si, sh, si_quiet, victim,
                 xcall, dropped>>
FSTransVars == <<fli, rwl, fs_state, handlers, running, suspend, phase,
                 smount, fs_wait, stack>>
partsvars == <<part, OnceVars, CalloutVars, WorkQueueVars, SoftIntVars,
               FSTransVars>>

LWPs == {l1, l2, l3}
TwoLWPs == {l1, l2}
CPUs == {c1, c2}

CO == INSTANCE Callout WITH
    CPU <- CPUs, LWP <- TwoLWPs, MaxSchedules <- 3, pc <- co_pc,
    quiet <- co_quiet
WQ == INSTANCE WorkQueue WITH
    CPU <- CPUs, Work <- {w1, w2}, NULL <- None, state <- wq_state
SI == INSTANCE SoftInt WITH
    Lwps <- {a, b}, Soft <- {net}, Order <- <<net>>, Handlers <- {h1},
    Level <- h1 :> net, Unregister <- {}, Xc <- xc, Idle <- idle,
    pc <- si_pc, quiet <- si_quiet
FS == INSTANCE FSTrans WITH
    LWP <- TwoLWPs, Mount <- {m1}, MaxNest <- 2, state <- fs_state,
    wait <- fs_wait

ASSUME
    /\ CO!CalloutAssumption
    /\ WQ!WorkQueueAssumption
    /\ SI!SoftIntAssumption

OnceOff == Init /\ once = [l \in LWP |-> o1]
CalloutOff == CO!Init /\ c_cpu = c1 /\ ~bound
WorkQueueOff == WQ!Init
SoftIntOff == SI!Init /\ curlwp = a
FSTransOff == FS!Init

PartsInit ==
    \/ /\ part = "once" /\ Init
       /\ CalloutOff /\ WorkQueueOff /\ SoftIntOff /\ FSTransOff
    \/ /\ part = "callout" /\ CO!Init
       /\ OnceOff /\ WorkQueueOff /\ SoftIntOff /\ FSTransOff
    \/ /\ part = "workqueue" /\ WQ!Init
       /\ OnceOff /\ CalloutOff /\ SoftIntOff /\ FSTransOff
    \/ /\ part = "softint" /\ SI!Init
       /\ OnceOff /\ CalloutOff /\ WorkQueueOff /\ FSTransOff
    \/ /\ part = "transactions" /\ FS!Init
       /\ OnceOff /\ CalloutOff /\ WorkQueueOff /\ SoftIntOff

PartsStep(step) ==
    /\ part = "once" /\ step
    /\ UNCHANGED <<part, CalloutVars, WorkQueueVars, SoftIntVars, FSTransVars>>
COStep(step) ==
    /\ part = "callout" /\ step
    /\ UNCHANGED <<part, OnceVars, WorkQueueVars, SoftIntVars, FSTransVars>>
WQStep(step) ==
    /\ part = "workqueue" /\ step
    /\ UNCHANGED <<part, OnceVars, CalloutVars, SoftIntVars, FSTransVars>>
SIStep(step) ==
    /\ part = "softint" /\ step
    /\ UNCHANGED <<part, OnceVars, CalloutVars, WorkQueueVars, FSTransVars>>
FSStep(step) ==
    /\ part = "transactions" /\ step
    /\ UNCHANGED <<part, OnceVars, CalloutVars, WorkQueueVars, SoftIntVars>>

PartsNext ==
    \/ /\ part = "once" /\ Next
       /\ UNCHANGED <<part, CalloutVars, WorkQueueVars, SoftIntVars, FSTransVars>>
    \/ /\ part = "callout" /\ CO!Next
       /\ UNCHANGED <<part, OnceVars, WorkQueueVars, SoftIntVars, FSTransVars>>
    \/ /\ part = "workqueue" /\ WQ!Next
       /\ UNCHANGED <<part, OnceVars, CalloutVars, SoftIntVars, FSTransVars>>
    \/ /\ part = "softint" /\ SI!Next
       /\ UNCHANGED <<part, OnceVars, CalloutVars, WorkQueueVars, FSTransVars>>
    \/ /\ part = "transactions" /\ FS!Next
       /\ UNCHANGED <<part, OnceVars, CalloutVars, WorkQueueVars, SoftIntVars>>

PartsSpec == PartsInit /\ [][PartsNext]_partsvars

PartsFairSpec ==
    /\ PartsSpec
    /\ WF_partsvars(COStep(CO!HaltAgain(l1)) \/ WQStep(WQ!Destroyer) \/ PartsStep(Runs(l1)))
    /\ WF_partsvars(COStep(CO!HaltAgain(l2)) \/ WQStep(WQ!Worker(c1)) \/ PartsStep(Runs(l2)))
    /\ WF_partsvars(COStep(CO!SoftclockDone(c1)) \/ WQStep(WQ!Worker(c2)) \/ PartsStep(Runs(l3)))
    /\ WF_partsvars(COStep(CO!SoftclockDone(c2)))
    /\ SF_partsvars(SIStep(SI!Run(a)) \/ FSStep(FS!Continue(l1)))
    /\ SF_partsvars(SIStep(SI!Run(b)) \/ FSStep(FS!Continue(l2)))
    /\ SF_partsvars(SIStep(SI!Run(net)) \/ FSStep(FS!Resume(l1)))
    /\ SF_partsvars(SIStep(SI!Run(xc)) \/ FSStep(FS!Resume(l2)))
    /\ SF_partsvars(SIStep(SI!Run(idle)) \/ FSStep(FS!End(l1, 1)))
    /\ SF_partsvars(SIStep(SI!HandlerWakes(a)) \/ FSStep(FS!End(l2, 1)))
    /\ SF_partsvars(SIStep(SI!HandlerWakes(b)) \/ FSStep(FS!End(l1, 2)))
    /\ SF_partsvars(SIStep(SI!HandlerWakes(net)) \/ FSStep(FS!End(l2, 2)))
    /\ SF_partsvars(SIStep(SI!UserTick))

\* An LWP that waits in callout_halt() or in RUN_ONCE() returns.
WaitsEnd ==
    /\ CO!HaltReturnsTo(l1)
    /\ CallerReturns(l1)

\* Work that has been given to a work queue is called, workqueue_destroy()
\* returns, and a soft interrupt that has been scheduled runs.
DeferredWorkDone ==
    /\ WQ!IsCalled(w1)
    /\ WQ!DestroyReturns
    /\ SI!ScheduledRuns

\* With one file system, whoever waits for a transaction, for a suspension
\* or its end, or to change the handlers goes on in the end: nested
\* transactions and runs do not wait behind a writer that waits for them.
\* With two it does not hold of every program that calls these functions: an
\* LWP that suspends one file system and then changes the handlers of the
\* other waits for the runs of that one, and a run in which a transaction is
\* started on the first waits for it.
WaitersGoOn == FS!GoesOn(l1)

=============================================================================
