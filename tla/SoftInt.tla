------------------------------- MODULE SoftInt -------------------------------
(***************************************************************************)
(* Soft interrupts without hardware support (sys/kern/kern_softint.c, the  *)
(* slow path that the AVR32 port uses), with what they use of mi_switch(), *)
(* of the idle loop and of the way back to user mode, on one CPU.          *)
(*                                                                         *)
(* A level is named by its LWP, si_lwp: "si" stands for both.  A handler   *)
(* is run by that LWP, when mi_switch() picks it, or by softint_overlay()  *)
(* within an LWP that is about to return to user mode.  Handlers and the   *)
(* kernel may sleep.  All that happens at splhigh is one step; interrupts  *)
(* come between any two steps except at "overlay", which is at splhigh.    *)
(* When no soft interrupt is pending mi_switch() takes an LWP in a soft    *)
(* interrupt, whose priority is above all others, or else any LWP that     *)
(* can run: the model holds for every scheduler.                           *)
(*                                                                         *)
(* A definition marked "Slip" is the one that follows it with a plausible  *)
(* mistake: the properties are shown to reject it.                         *)
(***************************************************************************)
EXTENDS Naturals, Sequences, FiniteSets, FiniteSetsExt

CONSTANTS
    Lwps,       \* LWPs that run in user mode and in the kernel
    Soft,       \* the levels, each with its LWP
    Order,      \* the levels from the highest to the lowest
    Handlers,   \* slots of sc_hand
    Level,      \* the level of each handler
    Xc,         \* the LWP that runs cross calls
    Idle,       \* the idle LWP
    None,
    Unregister  \* the handlers that may be disestablished

SoftIntAssumption ==
    /\ Level \in [Handlers -> Soft] /\ Unregister \subseteq Handlers
    /\ Order \in Seq(Soft) /\ Len(Order) = Cardinality(Soft)
    /\ {Order[i] : i \in DOMAIN Order} = Soft
    /\ Lwps \cap Soft = {} /\ {Xc, Idle} \cap (Lwps \cup Soft) = {}
    /\ Xc # Idle /\ None \notin Lwps \cup Soft \cup Handlers \cup {Xc, Idle}

AnyLwp == Lwps \cup Soft \cup {Xc, Idle}

VARIABLES
    curlwp,
    stat,       \* l_stat
    pc,         \* where each LWP is
    after,      \* where an LWP goes on after softint_overlay()
    ast,        \* the LWPs with md_astpending (of those that see user mode)
    want,       \* ci_want_resched
    softints,   \* cpu_softints, as a set of levels
    si_q, si_active,
    sh_flags,   \* of PENDING and ACTIVE, those that are set
    sh_func,    \* the handlers with a function
    si,         \* the level that an LWP executes
    sh,         \* the handler that it executes
    quiet,      \* handlers that their owners no longer trigger
    victim,     \* the handler that an LWP disestablishes
    xcall,      \* the LWP that waits for a cross call
    dropped     \* history: the handlers cleared while they were pending

cpuVars == <<curlwp, stat, want>>
intVars == <<softints, si_q, si_active, sh_flags>>
handVars == <<sh_func, quiet, victim, xcall, dropped>>
vars == <<curlwp, stat, pc, after, ast, want, softints, si_q, si_active,
          sh_flags, sh_func, si, sh, quiet, victim, xcall, dropped>>

Goto(l, p) == pc' = [pc EXCEPT ![l] = p]

-----------------------------------------------------------------------------
(* Switching.                                                              *)

\* softint_picklwp(): the highest level that is pending.
PickLwp == Order[Min({i \in DOMAIN Order : Order[i] \in softints})]

\* The LWPs with a priority of at least PRI_KERNEL_RT.
Urgent == Soft \cup {l \in Lwps : pc[l] = "handler"}

\* nextlwp(): those with the highest priority, or the idle LWP.
NextLwp(st) ==
    LET ready == {n \in AnyLwp : st[n] = "run"}
    IN  CASE ready \cap Urgent # {} -> ready \cap Urgent
          [] ready = {} -> {Idle}
          [] OTHER -> ready

\* mi_switch() from LWPs whose states have become st.
SwitchFrom(st) ==
    /\ curlwp' \in IF softints # {} THEN {PickLwp} ELSE NextLwp(st)
    /\ want' = (softints # {} /\ want)
    /\ stat' = [st EXCEPT ![curlwp'] = "onproc"]

\* mi_switch() by the running LWP l, whose state becomes s.
MiSwitch(l, s) == SwitchFrom([stat EXCEPT ![l] = s])

\* cpu_need_resched().
NeedResched == want' = TRUE /\ ast' = ast \cup ({curlwp} \cap Lwps)

\* softint_trigger() for the level s.
TriggerSlip(s) ==
    /\ softints' = softints \cup {s}
    /\ ast' = ast \cup ({curlwp} \cap Lwps)
    /\ UNCHANGED want

Trigger(s) ==
    /\ softints' = softints \cup {s}
    /\ IF curlwp = Idle THEN NeedResched
       ELSE /\ ast' = ast \cup ({curlwp} \cap Lwps)
            /\ UNCHANGED want

\* softint_schedule() of the handler h.
ScheduleSlip(h) ==
    IF "PENDING" \in sh_flags[h] THEN UNCHANGED <<intVars, ast, want>>
    ELSE /\ sh_flags' = [sh_flags EXCEPT ![h] = @ \cup {"PENDING"}]
         /\ si_q' = [si_q EXCEPT ![Level[h]] = <<h>> \o @]
         /\ IF si_active[Level[h]]
            THEN UNCHANGED <<si_active, softints, ast, want>>
            ELSE /\ si_active' = [si_active EXCEPT ![Level[h]] = TRUE]
                 /\ Trigger(Level[h])

Schedule(h) ==
    IF "PENDING" \in sh_flags[h] THEN UNCHANGED <<intVars, ast, want>>
    ELSE /\ sh_flags' = [sh_flags EXCEPT ![h] = @ \cup {"PENDING"}]
         /\ si_q' = [si_q EXCEPT ![Level[h]] = Append(@, h)]
         /\ IF si_active[Level[h]]
            THEN UNCHANGED <<si_active, softints, ast, want>>
            ELSE /\ si_active' = [si_active EXCEPT ![Level[h]] = TRUE]
                 /\ Trigger(Level[h])

-----------------------------------------------------------------------------
(* Interrupts.  One that is taken in user mode looks for an AST before it  *)
(* goes back.                                                              *)

FromUser ==
    pc' = [pc EXCEPT ![curlwp] = IF @ = "user" THEN "astcheck" ELSE @]

\* A device interrupt, or the kernel, triggers the handler h.
Interrupt(h) ==
    /\ pc[curlwp] # "overlay"
    /\ h \in sh_func \ quiet
    /\ Schedule(h)
    /\ FromUser
    /\ UNCHANGED <<curlwp, stat, after, si, sh, handVars>>

\* The clock interrupt asks for another LWP.
Tick ==
    /\ pc[curlwp] # "overlay"
    /\ NeedResched
    /\ FromUser
    /\ UNCHANGED <<curlwp, stat, after, intVars, si, sh, handVars>>

\* What l waits for has happened.
Wakeup(l) ==
    /\ stat[l] = "sleep" /\ pc[l] \notin {"xcwait", "xc"}
    /\ pc[curlwp] # "overlay"
    /\ stat' = [stat EXCEPT ![l] = "run"]
    /\ \/ NeedResched
       \/ /\ curlwp # Idle /\ (l \notin Urgent \/ curlwp \in Urgent)
          /\ UNCHANGED <<want, ast>>
    /\ UNCHANGED <<curlwp, pc, after, intVars, si, sh, handVars>>

-----------------------------------------------------------------------------
(* Execution of handlers.                                                  *)

\* The top of the loop of softint_execute(), by l at the level s.
NextHandlerSlip(l, s, flags) ==
    /\ IF si_q[s] # <<>>
       THEN LET h == Head(si_q[s])
            IN  /\ si_q' = [si_q EXCEPT ![s] = Tail(@)]
                /\ sh_flags' = [flags EXCEPT ![h] =
                       (@ \cup {"PENDING", "ACTIVE"})
                       \ (@ \cap {"PENDING", "ACTIVE"})]
                /\ sh' = [sh EXCEPT ![l] = h]
                /\ si' = [si EXCEPT ![l] = s]
                /\ Goto(l, "handler")
                /\ si_active' = [si_active EXCEPT ![s] = l \in Soft]
       ELSE /\ si_active' = [si_active EXCEPT ![s] = FALSE]
            /\ sh_flags' = flags
            /\ sh' = [sh EXCEPT ![l] = None]
            /\ si' = [si EXCEPT ![l] = None]
            /\ Goto(l, IF l \in Soft THEN "switch" ELSE "overlay")
            /\ UNCHANGED si_q

NextHandler(l, s, flags) ==
    /\ IF si_q[s] # <<>>
       THEN LET h == Head(si_q[s])
            IN  /\ si_q' = [si_q EXCEPT ![s] = Tail(@)]
                /\ sh_flags' = [flags EXCEPT ![h] =
                       (@ \cup {"PENDING", "ACTIVE"})
                       \ (@ \cap {"PENDING", "ACTIVE"})]
                /\ sh' = [sh EXCEPT ![l] = h]
                /\ si' = [si EXCEPT ![l] = s]
                /\ Goto(l, "handler")
                /\ UNCHANGED si_active
       ELSE /\ si_active' = [si_active EXCEPT ![s] = FALSE]
            /\ sh_flags' = flags
            /\ sh' = [sh EXCEPT ![l] = None]
            /\ si' = [si EXCEPT ![l] = None]
            /\ Goto(l, IF l \in Soft THEN "switch" ELSE "overlay")
            /\ UNCHANGED si_q

\* The handler returns to softint_execute().
HandlerDoneSlip(l) ==
    /\ curlwp = l /\ pc[l] = "handler"
    /\ si_active' = [si_active EXCEPT ![si[l]] = FALSE]
    /\ sh_flags' = [sh_flags EXCEPT ![sh[l]] = @ \ {"ACTIVE"}]
    /\ sh' = [sh EXCEPT ![l] = None] /\ si' = [si EXCEPT ![l] = None]
    /\ Goto(l, IF l \in Soft THEN "switch" ELSE "overlay")
    /\ UNCHANGED <<cpuVars, after, ast, softints, si_q, handVars>>

HandlerDone(l) ==
    /\ curlwp = l /\ pc[l] = "handler"
    /\ NextHandler(l, si[l], [sh_flags EXCEPT ![sh[l]] = @ \ {"ACTIVE"}])
    /\ UNCHANGED <<cpuVars, after, ast, softints, handVars>>

\* softint_thread(): clear the level's bit and run its handlers.
SoftThreadSlip(s) ==
    /\ curlwp = s /\ pc[s] = "start"
    /\ NextHandler(s, s, sh_flags)
    /\ UNCHANGED <<cpuVars, after, ast, softints, handVars>>

SoftThread(s) ==
    /\ curlwp = s /\ pc[s] = "start"
    /\ softints' = softints \ {s}
    /\ NextHandler(s, s, sh_flags)
    /\ UNCHANGED <<cpuVars, after, ast, handVars>>

\* The end of the loop of softint_thread(): LSIDL and mi_switch().
SoftSwitch(s) ==
    /\ curlwp = s /\ pc[s] = "switch"
    /\ Goto(s, "start")
    /\ MiSwitch(s, "idl")
    /\ UNCHANGED <<after, ast, intVars, si, sh, handVars>>

\* The loop of softint_overlay(), at splhigh.
Overlay(l) ==
    /\ curlwp = l /\ pc[l] = "overlay"
    /\ IF softints = {}
       THEN /\ Goto(l, after[l])
            /\ UNCHANGED <<intVars, si, sh>>
       ELSE /\ softints' = softints \ {PickLwp}
            /\ NextHandler(l, PickLwp, sh_flags)
    /\ UNCHANGED <<cpuVars, after, ast, handVars>>

-----------------------------------------------------------------------------
(* The LWPs, from user mode into the kernel and back.                      *)

Syscall(l) ==
    /\ curlwp = l /\ pc[l] = "user"
    /\ Goto(l, "kernel")
    /\ UNCHANGED <<cpuVars, after, ast, intVars, si, sh, handVars>>

\* Whoever is in the kernel or in a handler may have to wait.
Sleep(l) ==
    /\ curlwp = l /\ pc[l] \in {"kernel", "handler"}
    /\ MiSwitch(l, "sleep")
    /\ UNCHANGED <<pc, after, ast, intVars, si, sh, handVars>>

\* mi_userret() and the test of lwp_userret(), to go on at p.
UserRet(l, p) ==
    /\ Goto(l, IF softints # {} THEN "overlay" ELSE p)
    /\ after' = [after EXCEPT ![l] = p]

\* The end of a system call.
Return(l) ==
    /\ curlwp = l /\ pc[l] = "kernel"
    /\ UserRet(l, "astcheck")
    /\ UNCHANGED <<cpuVars, ast, intVars, si, sh, handVars>>

\* ast(), if the flag is set.
Ast(l) ==
    /\ curlwp = l /\ pc[l] = "astcheck"
    /\ ast' = ast \ {l}
    /\ IF l \in ast THEN UserRet(l, "resched")
       ELSE Goto(l, "leave") /\ UNCHANGED after
    /\ UNCHANGED <<cpuVars, intVars, si, sh, handVars>>

Preempt(l) ==
    /\ curlwp = l /\ pc[l] = "resched"
    /\ Goto(l, "astcheck")
    /\ IF want THEN MiSwitch(l, "run") ELSE UNCHANGED cpuVars
    /\ UNCHANGED <<after, ast, intVars, si, sh, handVars>>

\* The flag has been looked at and the way to user mode goes on.
Leave(l) ==
    /\ curlwp = l /\ pc[l] = "leave"
    /\ Goto(l, "user")
    /\ UNCHANGED <<cpuVars, after, ast, intVars, si, sh, handVars>>

\* idle_loop(): nothing to do, so cpu_idle(), which waits for ci_want_resched.
IdleLook ==
    /\ curlwp = Idle /\ pc[Idle] = "look"
    /\ IF softints # {} \/ \E l \in AnyLwp : stat[l] = "run"
       THEN MiSwitch(Idle, "idl") /\ UNCHANGED pc
       ELSE Goto(Idle, "spin") /\ UNCHANGED cpuVars
    /\ UNCHANGED <<after, ast, intVars, si, sh, handVars>>

IdleSpin ==
    /\ curlwp = Idle /\ pc[Idle] = "spin" /\ want
    /\ Goto(Idle, "look")
    /\ MiSwitch(Idle, "idl")
    /\ UNCHANGED <<after, ast, intVars, si, sh, handVars>>

-----------------------------------------------------------------------------
(* Handlers come and go.                                                   *)

\* softint_establish() in the slot h.  The model does not go on to what becomes
\* of a record that is inserted again while it is still in its queue.
Establish(l, h) ==
    /\ curlwp = l /\ pc[l] = "kernel"
    /\ h \notin sh_func \cup dropped
    /\ sh_func' = sh_func \cup {h}
    /\ quiet' = quiet \ {h}
    /\ sh_flags' = [sh_flags EXCEPT ![h] = {}]
    /\ UNCHANGED <<cpuVars, pc, after, ast, softints, si_q, si_active, si, sh,
                   victim, xcall, dropped>>

\* softint_disestablish(): a cross call, and the wait for it.  One LWP at a
\* time does this.
Disestablish(l, h) ==
    /\ curlwp = l /\ pc[l] = "kernel" /\ xcall = None
    /\ \A k \in Lwps : victim[k] = None
    /\ h \in (sh_func \ quiet) \cap Unregister
    /\ quiet' = quiet \cup {h}
    /\ victim' = [victim EXCEPT ![l] = h]
    /\ xcall' = l
    /\ SwitchFrom([stat EXCEPT ![Xc] = "run", ![l] = "sleep"])
    /\ Goto(l, "xcwait")
    /\ UNCHANGED <<after, ast, intVars, si, sh, sh_func, dropped>>

\* xc_thread() runs the call, wakes the LWP that waits and sleeps.
XcThread ==
    /\ curlwp = Xc
    /\ xcall' = None
    /\ Goto(xcall, "flags")
    /\ SwitchFrom([stat EXCEPT ![xcall] = "run", ![Xc] = "sleep"])
    /\ UNCHANGED <<after, ast, intVars, si, sh, sh_func, quiet, victim,
                   dropped>>

\* The handlers that are pending when they are cleared.
Dropped(h) == IF "PENDING" \in sh_flags[h] THEN {h} ELSE {}

\* The loop over the flags: wait while the handler is active, or clear it.
ClearHandlerSlip(l) ==
    /\ curlwp = l /\ pc[l] = "flags"
    /\ sh_func' = sh_func \ {victim[l]}
    /\ dropped' = dropped \cup Dropped(victim[l])
    /\ victim' = [victim EXCEPT ![l] = None]
    /\ Goto(l, "kernel")
    /\ UNCHANGED cpuVars
    /\ UNCHANGED <<after, ast, intVars, si, sh, quiet, xcall>>

ClearHandler(l) ==
    /\ curlwp = l /\ pc[l] = "flags"
    /\ IF "ACTIVE" \in sh_flags[victim[l]]
       THEN /\ MiSwitch(l, "sleep")
            /\ UNCHANGED <<sh_func, dropped, victim, pc>>
       ELSE /\ sh_func' = sh_func \ {victim[l]}
            /\ dropped' = dropped \cup Dropped(victim[l])
            /\ victim' = [victim EXCEPT ![l] = None]
            /\ Goto(l, "kernel")
            /\ UNCHANGED cpuVars
    /\ UNCHANGED <<after, ast, intVars, si, sh, quiet, xcall>>

-----------------------------------------------------------------------------
\* The LWPs of the levels were made runnable by softint_init_md(), which set
\* si_active.
Init ==
    /\ curlwp \in Lwps
    /\ stat = [l \in AnyLwp |-> CASE l = curlwp -> "onproc" [] l = Idle -> "idl"
                               [] l = Xc -> "sleep" [] OTHER -> "run"]
    /\ pc = [l \in AnyLwp |-> CASE l \in Lwps -> "kernel" [] l \in Soft -> "start"
                             [] l = Xc -> "xc" [] OTHER -> "look"]
    /\ after = [l \in Lwps |-> "astcheck"]
    /\ ast = {} /\ want = FALSE
    /\ softints = {}
    /\ si_q = [s \in Soft |-> <<>>]
    /\ si_active = [s \in Soft |-> TRUE]
    /\ sh_flags = [h \in Handlers |-> {}]
    /\ sh_func = {} /\ quiet = {}
    /\ si = [l \in Lwps \cup Soft |-> None]
    /\ sh = [l \in Lwps \cup Soft |-> None]
    /\ victim = [l \in Lwps |-> None]
    /\ xcall = None /\ dropped = {}

\* What an LWP does when it has the CPU and does not choose otherwise.
Run(l) ==
    \/ l \in Lwps \cup Soft /\ HandlerDone(l)
    \/ l \in Soft /\ (SoftThread(l) \/ SoftSwitch(l))
    \/ l \in Lwps /\ \/ Overlay(l) \/ Return(l) \/ Ast(l) \/ Preempt(l)
                     \/ Leave(l) \/ ClearHandler(l)
    \/ l = Idle /\ (IdleLook \/ IdleSpin)
    \/ l = Xc /\ XcThread

Next ==
    \/ \E l \in AnyLwp : Run(l) \/ Wakeup(l)
    \/ \E l \in Lwps : Syscall(l)
    \/ \E l \in Lwps \cup Soft : Sleep(l)
    \/ \E l \in Lwps, h \in Handlers : Establish(l, h) \/ Disestablish(l, h)
    \/ \E h \in Handlers : Interrupt(h)
    \/ Tick

Spec == Init /\ [][Next]_vars

\* An LWP that gets the CPU again and again goes on in the end, the sleeps of
\* handlers end, and the clock goes on interrupting user programs.
HandlerWakes(l) == pc[l] = "handler" /\ Wakeup(l)
UserTick == pc[curlwp] = "user" /\ Tick

FairSpec ==
    /\ Spec
    /\ \A l \in AnyLwp : SF_vars(Run(l))
    /\ \A l \in Lwps \cup Soft : SF_vars(HandlerWakes(l))
    /\ SF_vars(UserTick)

-----------------------------------------------------------------------------
Executors(s) == {l \in Lwps \cup Soft : si[l] = s}

\* softint_execute() is never entered twice for a level, by the level's LWP
\* and by LWPs on their way to user mode: neither while a handler sleeps nor
\* when an interrupt comes between its end and the switch.
OneExecutor == \A s \in Soft : Cardinality(Executors(s)) <= 1

\* A handler that was scheduled is not forgotten: it is in its queue once, and
\* the level's bit is set, or somebody is executing the level and will look at
\* the queue again, or the level's LWP has not yet run for the first time.
NotForgotten ==
    \A h \in Handlers : "PENDING" \in sh_flags[h] =>
        /\ Cardinality({i \in DOMAIN si_q[Level[h]] :
                           si_q[Level[h]][i] = h}) = 1
        /\ \/ Level[h] \in softints
           \/ Executors(Level[h]) # {}
           \/ pc[Level[h]] = "start" /\ stat[Level[h]] \in {"run", "onproc"}

\* mi_switch() makes the LWP of a pending level run whatever it was doing: at
\* that time it sleeps nowhere and is in no run queue.
PickedIsIdle ==
    \A s \in softints :
        \/ stat[s] = "idl"
        \/ curlwp = s /\ pc[s] \in {"start", "switch"}

\* The handlers that have their level to themselves.
Alone(h) == \A g \in Handlers \ {h} : Level[g] # Level[h]

\* The function that softint_execute() calls is there, and it is not cleared
\* while it runs, though its owner may have gone on to free its state; with
\* one exception.  softint_disestablish() waits for an active handler and not
\* for a pending one: a handler that is pending behind another of its level,
\* which sleeps, is cleared and called afterwards.  This happens to no handler
\* that is the only one of its level, since the level's LWP runs before the
\* cross call's.
CalledIsEstablished ==
    /\ \A l \in Lwps \cup Soft : sh[l] # None => sh[l] \in sh_func \cup dropped
    /\ \A h \in dropped : ~Alone(h)

\* A handler that was scheduled is run, even if its level is triggered all the
\* time: the queue is served in order.
ScheduledRuns ==
    \A h \in Handlers : "PENDING" \in sh_flags[h] ~> "ACTIVE" \in sh_flags[h]
=============================================================================
