------------------------------- MODULE MCKern -------------------------------
(***************************************************************************)
(* What happens behind the callers, one component at a time: cross calls,  *)
(* the callout wheel, work queues, soft interrupts and the time of day.    *)
(* "part" names the component that a behaviour is about. XCall is the      *)
(* module extended, and stays in its initial state in the behaviours of    *)
(* the others; the variables of the others are None when they are not the  *)
(* part.                                                                   *)
(***************************************************************************)
EXTENDS XCall, TLC

CONSTANTS
    c1, c2, l1, l2, l3, w1, w2, w3, a, b, net, clk, h1, h2, xc, idle, r1,
    ExitWork, None

VARIABLES
    part,
    cc_ticks, c_time, place, fired, left,
    state, wq_func, wk_next, q_first, q_last, q_cv, worker, wk, next, fini,
    queued,
    curlwp, stat, si_pc, after, ast, want, softints, si_q, si_active,
    sh_flags, sh_func, si, sh, quiet, victim, xcall, dropped,
    now, due, wound, hands, timehands, timecounter, timecounters,
    tc_quality, timecounter_mods, timecounter_bad, wind, reader, choice,
    failing, gone, steps, lost, replaced, forced, high

XCallVars == <<xc_func, xc_headp, xc_tailp, xc_donep, pending, thread, func,
               pc, where, target, call, calls, ran>>
CalloutWheelVars == <<cc_ticks, c_time, place, fired, left>>
WorkQueueVars == <<state, wq_func, wk_next, q_first, q_last, q_cv, worker,
                   wk, next, fini, queued>>
SoftIntVars == <<curlwp, stat, si_pc, after, ast, want, softints, si_q,
                 si_active, sh_flags, sh_func, si, sh, quiet, victim, xcall,
                 dropped>>
TimeCounterVars == <<now, due, wound, hands, timehands, timecounter,
                     timecounters, tc_quality, timecounter_mods,
                     timecounter_bad, wind, reader, choice, failing, gone,
                     steps, lost, replaced, forced, high>>
partsvars == <<part, XCallVars, CalloutWheelVars, WorkQueueVars,
               SoftIntVars, TimeCounterVars>>

CPUs == {c1, c2}
Counters == {"base", "fine", "narrow"}

\* The period, the range and the quality of each time counter.
CounterPeriod == "base" :> 2 @@ "fine" :> 1 @@ "narrow" :> 1
CounterMask == "base" :> 7 @@ "fine" :> 15 @@ "narrow" :> 3
CounterQuality == "base" :> 100 @@ "fine" :> 200 @@ "narrow" :> 300

\* Two soft interrupt handlers, one at each level or both at one.
OneEach == h1 :> net @@ h2 :> clk
OneLevel == h1 :> net @@ h2 :> net
Levels == <<net, clk>>

WH == INSTANCE CalloutWheel WITH
    Callout <- {w1}, WHEELBITS <- 2, Delays <- {0, 1, 4, 16, 63, 65},
    MaxLate <- 2
WQ == INSTANCE WorkQueue WITH
    CPU <- CPUs, Work <- {w1, w2, w3}, NULL <- None
SIShared == INSTANCE SoftInt WITH
    Lwps <- {a, b}, Soft <- {net}, Order <- <<net>>, Handlers <- {h1, h2},
    Level <- OneLevel, Unregister <- {h1, h2}, Xc <- xc, Idle <- idle,
    pc <- si_pc
SIApart == INSTANCE SoftInt WITH
    Lwps <- {a, b}, Soft <- {net, clk}, Order <- Levels,
    Handlers <- {h1, h2}, Level <- OneEach, Unregister <- {h1, h2},
    Xc <- xc, Idle <- idle, pc <- si_pc
TC == INSTANCE TimeCounter WITH
    Reader <- {r1}, Counter <- {"fine"}, First <- "fine", MP <- TRUE,
    Ops <- {}, MaxNow <- 11, Period <- CounterPeriod, Mask <- CounterMask,
    Quality <- CounterQuality, Second <- 120, Tick <- 4, Late <- 1,
    Hands <- 2
TCUP == INSTANCE TimeCounter WITH
    Reader <- {r1}, Counter <- {"base"}, First <- "base", MP <- FALSE,
    Ops <- {}, MaxNow <- 13, Period <- CounterPeriod, Mask <- CounterMask,
    Quality <- CounterQuality, Second <- 120, Tick <- 4, Late <- 1,
    Hands <- 2
TCChange == INSTANCE TimeCounter WITH
    Reader <- {r1}, Counter <- Counters, First <- "base", MP <- TRUE,
    Ops <- {"init"}, MaxNow <- 4, Period <- CounterPeriod,
    Mask <- CounterMask, Quality <- CounterQuality, Second <- 120,
    Tick <- 4, Late <- 1, Hands <- 2
TCList == INSTANCE TimeCounter WITH
    Reader <- {}, Counter <- {"base", "fine"}, First <- "base", MP <- FALSE,
    Ops <- {"init", "detach", "bad", "choice", "sysctl"}, MaxNow <- 4,
    Period <- CounterPeriod, Mask <- CounterMask, Quality <- CounterQuality,
    Second <- 120, Tick <- 4, Late <- 1, Hands <- 2

ASSUME
    /\ WH!WheelAssumption
    /\ WQ!WorkQueueAssumption
    /\ SIShared!SoftIntAssumption
    /\ SIApart!SoftIntAssumption
    /\ TC!TimeCounterAssumption
    /\ TCUP!TimeCounterAssumption
    /\ TCChange!TimeCounterAssumption
    /\ TCList!TimeCounterAssumption

XCallOff == Init
CalloutWheelOff ==
    /\ cc_ticks = None /\ c_time = None /\ place = None /\ fired = None
    /\ left = None
WorkQueueOff ==
    /\ state = None /\ wq_func = None /\ wk_next = None /\ q_first = None
    /\ q_last = None /\ q_cv = None /\ worker = None /\ wk = None
    /\ next = None /\ fini = None /\ queued = None
SoftIntOff ==
    /\ curlwp = None /\ stat = None /\ si_pc = None /\ after = None
    /\ ast = None /\ want = None /\ softints = None /\ si_q = None
    /\ si_active = None /\ sh_flags = None /\ sh_func = None /\ si = None
    /\ sh = None /\ quiet = None /\ victim = None /\ xcall = None
    /\ dropped = None
TimeCounterOff ==
    /\ now = None /\ due = None /\ wound = None /\ hands = None
    /\ timehands = None /\ timecounter = None /\ timecounters = None
    /\ tc_quality = None /\ timecounter_mods = None
    /\ timecounter_bad = None /\ wind = None /\ reader = None
    /\ choice = None /\ failing = None /\ gone = None /\ steps = None
    /\ lost = None /\ replaced = None /\ forced = None /\ high = None

PartsInit ==
    \/ /\ part = "xcall" /\ Init
       /\ CalloutWheelOff /\ WorkQueueOff /\ SoftIntOff /\ TimeCounterOff
    \/ /\ part = "callout wheel" /\ WH!Init
       /\ XCallOff /\ WorkQueueOff /\ SoftIntOff /\ TimeCounterOff
    \/ /\ part = "workqueue" /\ WQ!Init
       /\ XCallOff /\ CalloutWheelOff /\ SoftIntOff /\ TimeCounterOff
    \/ /\ part = "softint, shared level" /\ SIShared!Init
       /\ XCallOff /\ CalloutWheelOff /\ WorkQueueOff /\ TimeCounterOff
    \/ /\ part = "softint, disestablish" /\ SIApart!Init
       /\ XCallOff /\ CalloutWheelOff /\ WorkQueueOff /\ TimeCounterOff
    \/ /\ part = "timecounter" /\ TC!Init
       /\ XCallOff /\ CalloutWheelOff /\ WorkQueueOff /\ SoftIntOff
    \/ /\ part = "timecounter, uniprocessor" /\ TCUP!Init
       /\ XCallOff /\ CalloutWheelOff /\ WorkQueueOff /\ SoftIntOff
    \/ /\ part = "timecounter, changed" /\ TCChange!Init
       /\ XCallOff /\ CalloutWheelOff /\ WorkQueueOff /\ SoftIntOff
    \/ /\ part = "timecounter, list" /\ TCList!Init
       /\ XCallOff /\ CalloutWheelOff /\ WorkQueueOff /\ SoftIntOff


PartsNext ==
    \/ /\ part = "xcall" /\ Next
       /\ UNCHANGED <<part, CalloutWheelVars, WorkQueueVars, SoftIntVars,
          TimeCounterVars>>
    \/ /\ part = "callout wheel" /\ WH!Next
       /\ UNCHANGED <<part, XCallVars, WorkQueueVars, SoftIntVars, TimeCounterVars>>
    \/ /\ part = "workqueue" /\ WQ!Next
       /\ UNCHANGED <<part, XCallVars, CalloutWheelVars, SoftIntVars, TimeCounterVars>>
    \/ /\ part = "softint, shared level" /\ SIShared!Next
       /\ UNCHANGED <<part, XCallVars, CalloutWheelVars, WorkQueueVars, TimeCounterVars>>
    \/ /\ part = "softint, disestablish" /\ SIApart!Next
       /\ UNCHANGED <<part, XCallVars, CalloutWheelVars, WorkQueueVars, TimeCounterVars>>
    \/ /\ part = "timecounter" /\ TC!Next
       /\ UNCHANGED <<part, XCallVars, CalloutWheelVars, WorkQueueVars, SoftIntVars>>
    \/ /\ part = "timecounter, uniprocessor" /\ TCUP!Next
       /\ UNCHANGED <<part, XCallVars, CalloutWheelVars, WorkQueueVars, SoftIntVars>>
    \/ /\ part = "timecounter, changed" /\ TCChange!Next
       /\ UNCHANGED <<part, XCallVars, CalloutWheelVars, WorkQueueVars, SoftIntVars>>
    \/ /\ part = "timecounter, list" /\ TCList!Next
       /\ UNCHANGED <<part, XCallVars, CalloutWheelVars, WorkQueueVars, SoftIntVars>>

PartsSpec == PartsInit /\ [][PartsNext]_partsvars

\* callout_schedule(), callout_hardclock() and softclock(): a callout whose
\* time has come is on the work list or further ahead in its bucket than the
\* hands have moved, and none is called before its time.
WheelSafe ==
    /\ part = "callout wheel" => WH!DueOnWorklist
    /\ part = "callout wheel" => WH!NeverEarly

\* workqueue_enqueue(), workqueue_runlist() and workqueue_destroy(). The
\* links implement a queue per CPU: nothing is lost, called twice or
\* overtaken, although a callback may enqueue its work again while the list
\* is being run; and the work that ends a queue's LWP is the last of its
\* queue.
WorkQueueSafe ==
    /\ part = "workqueue" => WQ!ExitIsLast
    /\ [][part = "workqueue" => WQ!ExitIsLast']_partsvars
    /\ part = "workqueue" => WQ!Fifo!Init
    /\ [][part = "workqueue" => [WQ!Fifo!Next]_(WQ!Fifo!vars)]_partsvars

\* softint_schedule(), softint_execute() and softint_disestablish(): a
\* handler is run by one LWP at a time and is not forgotten while it is
\* pending, the soft interrupt LWP that is picked is idle. A handler is not
\* cleared while it runs, and is not called after it has been disestablished
\* unless it was pending behind another handler of its level when it was.
SoftIntSafe ==
    /\ part = "softint, disestablish" => SIApart!OneExecutor
    /\ part = "softint, disestablish" => SIApart!NotForgotten
    /\ part = "softint, disestablish" => SIApart!PickedIsIdle
    /\ part = "softint, disestablish" => SIApart!CalledIsEstablished
    /\ part = "softint, shared level" => SIShared!OneExecutor
    /\ part = "softint, shared level" => SIShared!NotForgotten
    /\ part = "softint, shared level" => SIShared!PickedIsIdle
    /\ part = "softint, shared level" => SIShared!CalledIsEstablished

\* binuptime() and tc_windup(). A reader that takes no lock gets the time of
\* an instant of its call, although a hand is being rewritten, and never an
\* earlier time than before. A counter that has gone bad is noticed, unless
\* a sysctl asked for it as it was; a counter is unused when tc_detach()
\* returns, or after the next tc_windup() if a sysctl had just replaced it;
\* and the counter in use is one of the list.
TimeCounterSafe ==
    /\ part = "timecounter" => TC!ReadsTheTime
    /\ part = "timecounter, changed" => TCChange!ReadsTheTime
    /\ part = "timecounter, uniprocessor" => TCUP!Monotone
    /\ part = "timecounter, list" => TCList!BadNoticed
    /\ part = "timecounter, list" => TCList!StoppedUsing
    /\ part = "timecounter, list" => TCList!ChoiceOnList

\* The LWPs that make cross calls are interchangeable, and so are those that
\* soft interrupts interrupt.
Symmetry == Permutations({l1, l2, l3}) \cup Permutations({a, b})

=============================================================================
