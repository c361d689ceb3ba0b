------------------------------- MODULE CondVar ------------------------------
(***************************************************************************)
(* Condition variables (sys/kern/kern_condvar.c) on top of sleep queues    *)
(* (sys/kern/kern_sleepq.c), with the sleep timeout and the interruption   *)
(* by signals.  One condition variable and its mutex are used the way the  *)
(* kernel uses them: LWPs wait until there is an item, an LWP that adds an *)
(* item signals or broadcasts.  An LWP whose wait fails returns the error  *)
(* to its caller and takes nothing.                                        *)
(*                                                                         *)
(* The mutexes are taken as given (module Mutex): an LWP enters one when   *)
(* nobody holds it.  A sleep queue is a set, since its order depends on    *)
(* priorities; moving an LWP in it takes two steps, because cv_signal()    *)
(* looks at the queue without its lock.                                    *)
(*                                                                         *)
(* A definition marked "Slip" is the one that follows it with a plausible  *)
(* mistake: the properties are shown to reject it.                         *)
(***************************************************************************)
EXTENDS Naturals, FiniteSets

CONSTANTS
    LWP,       \* the lwps
    NoLWP,     \* a null lwp pointer
    Scheduler, \* stands for whoever holds a sleep queue lock to change a priority
    Waits,     \* the kinds of wait that are used, of CvWaits
    MaxItems   \* bound: items that can be there at once

CvWaits == {"cv_wait", "cv_wait_sig", "cv_timedwait", "cv_timedwait_sig"}

CondVarAssumption ==
    /\ IsFiniteSet(LWP)
    /\ NoLWP \notin LWP /\ Scheduler \notin LWP /\ NoLWP # Scheduler
    /\ Waits \subseteq CvWaits
    /\ MaxItems \in Nat

VARIABLES
    mtx,       \* who holds the interlocking mutex
    sq_mutex,  \* who holds the sleep queue lock
    sleepq,    \* the LWPs on the condition variable's queue
    moving,    \* the LWP that sleepq_changepri() has taken off the queue
    items,     \* what the LWPs wait for
    pc,        \* where each LWP is
    wait,      \* which cv_*wait*() an LWP calls, "none" outside
    timo,      \* l_timeout_ch: "idle", "pending", "running" or "fired"
    sig,       \* LW_PENDSIG: is a signal pending?
    err        \* has the wait failed?

vars == <<mtx, sq_mutex, sleepq, moving, items, pc, wait, timo, sig, err>>

Catches(l) == wait[l] \in {"cv_wait_sig", "cv_timedwait_sig"}
Timed(l) == wait[l] \in {"cv_timedwait", "cv_timedwait_sig"}

Goto(l, p) == pc' = [pc EXCEPT ![l] = p]

\* The LWP leaves the mutex and is done.
Done(l) == mtx' = NoLWP /\ wait' = [wait EXCEPT ![l] = "none"]

\* sleepq_remove() for the LWPs in S: off the queue and runnable.
SleepqRemove(S) ==
    /\ sleepq' = sleepq \ S
    /\ pc' = [x \in LWP |-> IF x \in S THEN "woken" ELSE pc[x]]

-----------------------------------------------------------------------------
(***************************************************************************)
(* The user's loop: enter the mutex, and while there is nothing, wait.     *)
(***************************************************************************)
Get(l, w) ==
    /\ pc[l] = "idle"
    /\ mtx = NoLWP
    /\ mtx' = l
    /\ wait' = [wait EXCEPT ![l] = w]
    /\ Goto(l, "test")
    /\ UNCHANGED <<sq_mutex, sleepq, moving, items, timo, sig, err>>

Take(l) ==
    /\ pc[l] = "test"
    /\ items > 0
    /\ items' = items - 1
    /\ Done(l)
    /\ Goto(l, "idle")
    /\ UNCHANGED <<sq_mutex, sleepq, moving, timo, sig, err>>

\* Slip: the mutex is released before the LWP is on the queue.
CvEnterLate(l) ==
    \/ /\ pc[l] = "test"
       /\ items = 0
       /\ mtx' = NoLWP
       /\ Goto(l, "late")
       /\ UNCHANGED <<sq_mutex, sleepq, moving, items, wait, timo, sig, err>>
    \/ /\ pc[l] = "late"
       /\ sq_mutex = NoLWP
       /\ sq_mutex' = l
       /\ sleepq' = sleepq \cup {l}
       /\ Goto(l, "block")
       /\ UNCHANGED <<mtx, moving, items, wait, timo, sig, err>>

\* cv_enter(), up to mutex_exit().
CvEnter(l) ==
    /\ pc[l] = "test"
    /\ items = 0
    /\ sq_mutex = NoLWP
    /\ sq_mutex' = l
    /\ sleepq' = sleepq \cup {l}
    /\ Goto(l, "entered")
    /\ UNCHANGED <<mtx, moving, items, wait, timo, sig, err>>

CvEnterExit(l) ==
    /\ pc[l] = "entered"
    /\ mtx' = NoLWP
    /\ Goto(l, "block")
    /\ UNCHANGED <<sq_mutex, sleepq, moving, items, wait, timo, sig, err>>

\* sleepq_block() with a signal pending: the LWP takes itself off the queue.
BlockEarly(l) ==
    /\ pc[l] = "block"
    /\ Catches(l) /\ sig[l]
    /\ SleepqRemove({l})
    /\ sq_mutex' = NoLWP
    /\ UNCHANGED <<mtx, moving, items, wait, timo, sig, err>>

\* sleepq_block(): start the timeout and switch, which drops the queue lock.
Block(l) ==
    /\ pc[l] = "block"
    /\ ~(Catches(l) /\ sig[l])
    /\ timo' = [timo EXCEPT ![l] = IF Timed(l) THEN "pending" ELSE @]
    /\ sq_mutex' = NoLWP
    /\ Goto(l, "asleep")
    /\ UNCHANGED <<mtx, sleepq, moving, items, wait, sig, err>>

\* Slip: the timeout is stopped, but not waited for when it runs.
StopTimeout(l) ==
    /\ pc[l] = "woken"
    /\ err' = [err EXCEPT ![l] = timo[l] \in {"running", "fired"}]
    /\ timo' = [timo EXCEPT ![l] = IF @ = "running" THEN @ ELSE "idle"]
    /\ Goto(l, "unblocked")
    /\ UNCHANGED <<mtx, sq_mutex, sleepq, moving, items, wait, sig>>

\* callout_halt(): cancel the timeout, or wait until it has run.
HaltTimeout(l) ==
    /\ pc[l] = "woken"
    /\ timo[l] # "running"
    /\ err' = [err EXCEPT ![l] = timo[l] = "fired"]
    /\ timo' = [timo EXCEPT ![l] = "idle"]
    /\ Goto(l, "unblocked")
    /\ UNCHANGED <<mtx, sq_mutex, sleepq, moving, items, wait, sig>>

\* The signal is taken, if the wait has not failed yet; issignal() may find
\* that there is nothing to deliver.
CheckSignal(l) ==
    /\ pc[l] = "unblocked"
    /\ IF Catches(l) /\ ~err[l] /\ sig[l]
       THEN /\ \E deliver \in BOOLEAN : err' = [err EXCEPT ![l] = deliver]
            /\ sig' = [sig EXCEPT ![l] = FALSE]
       ELSE UNCHANGED <<err, sig>>
    /\ Goto(l, "exit")
    /\ UNCHANGED <<mtx, sq_mutex, sleepq, moving, items, wait, timo>>

\* Slip: a failed wait keeps the wakeup it may have been given.
CvExitKeep(l) ==
    /\ pc[l] = "exit"
    /\ mtx = NoLWP
    /\ IF err[l]
       THEN Done(l) /\ Goto(l, "idle")
       ELSE mtx' = l /\ Goto(l, "test") /\ UNCHANGED wait
    /\ err' = [err EXCEPT ![l] = FALSE]
    /\ UNCHANGED <<sq_mutex, sleepq, moving, items, timo, sig>>

\* cv_exit(): enter the mutex again; a failed wait passes the wakeup on.
CvExit(l) ==
    /\ pc[l] = "exit"
    /\ mtx = NoLWP
    /\ mtx' = l
    /\ Goto(l, IF err[l] THEN "signal" ELSE "test")
    /\ err' = [err EXCEPT ![l] = FALSE]
    /\ UNCHANGED <<sq_mutex, sleepq, moving, items, wait, timo, sig>>

-----------------------------------------------------------------------------
\* An item is added, and the waiters are told.
Put(l) ==
    /\ pc[l] = "idle"
    /\ mtx = NoLWP
    /\ items < MaxItems
    /\ items' = items + 1
    /\ mtx' = l
    /\ \E p \in {"signal", "broadcast"} : Goto(l, p)
    /\ UNCHANGED <<sq_mutex, sleepq, moving, wait, timo, sig, err>>

\* The unlocked look at the queue in cv_signal() and cv_broadcast(); when it
\* is empty the caller is done and leaves the mutex.
LookEmpty(l) ==
    /\ pc[l] \in {"signal", "broadcast"}
    /\ sleepq = {}
    /\ Done(l)
    /\ Goto(l, "idle")
    /\ UNCHANGED <<sq_mutex, sleepq, moving, items, timo, sig, err>>

LookWaiters(l) ==
    /\ pc[l] \in {"signal", "broadcast"}
    /\ sleepq # {}
    /\ Goto(l, IF pc[l] = "signal" THEN "wakeup_one" ELSE "wakeup_all")
    /\ UNCHANGED <<mtx, sq_mutex, sleepq, moving, items, wait, timo, sig, err>>

\* cv_wakeup_one() removes the first LWP, cv_wakeup_all() every one.
Woken(l) ==
    IF pc[l] = "wakeup_all" \/ sleepq = {} THEN {sleepq}
                                           ELSE {{x} : x \in sleepq}

CvWakeup(l) ==
    /\ pc[l] \in {"wakeup_one", "wakeup_all"}
    /\ sq_mutex = NoLWP
    /\ \E S \in Woken(l) :
          /\ sleepq' = sleepq \ S
          /\ pc' = [x \in LWP |-> IF x = l THEN "idle"
                                  ELSE IF x \in S THEN "woken" ELSE pc[x]]
    /\ Done(l)
    /\ UNCHANGED <<sq_mutex, moving, items, timo, sig, err>>

-----------------------------------------------------------------------------
\* The softclock takes l's timeout: CALLOUT_FIRED is set, sleepq_timeout()
\* is called.
TimeoutFires(l) ==
    /\ timo[l] = "pending"
    /\ timo' = [timo EXCEPT ![l] = "running"]
    /\ UNCHANGED <<mtx, sq_mutex, sleepq, moving, items, pc, wait, sig, err>>

\* sleepq_timeout(): wake l, unless somebody has done so.
SleepqTimeout(l) ==
    /\ timo[l] = "running"
    /\ sq_mutex = NoLWP
    /\ timo' = [timo EXCEPT ![l] = "fired"]
    /\ SleepqRemove({l} \cap sleepq)
    /\ UNCHANGED <<mtx, sq_mutex, moving, items, wait, sig, err>>

\* sigpost(): a signal becomes pending, and wakes an interruptible sleeper.
SigPost(l) ==
    /\ ~sig[l]
    /\ sq_mutex = NoLWP
    /\ sig' = [sig EXCEPT ![l] = TRUE]
    /\ IF pc[l] = "asleep" /\ Catches(l)
       THEN SleepqRemove({l})
       ELSE UNCHANGED <<sleepq, pc>>
    /\ UNCHANGED <<mtx, sq_mutex, moving, items, wait, timo, err>>

\* Slip: the only LWP on the queue is moved, too.
ChangePriAlone(l) ==
    /\ sq_mutex = NoLWP
    /\ l \in sleepq
    /\ sq_mutex' = Scheduler
    /\ sleepq' = sleepq \ {l}
    /\ moving' = l
    /\ UNCHANGED <<mtx, items, pc, wait, timo, sig, err>>

\* sleepq_changepri(), sleepq_lendpri(): take l off the queue to move it,
\* but not if the queue would become empty.
ChangePri(l) ==
    /\ sq_mutex = NoLWP
    /\ l \in sleepq /\ sleepq # {l}
    /\ sq_mutex' = Scheduler
    /\ sleepq' = sleepq \ {l}
    /\ moving' = l
    /\ UNCHANGED <<mtx, items, pc, wait, timo, sig, err>>

\* sleepq_insert() at the new place.
ChangePriInsert ==
    /\ sq_mutex = Scheduler
    /\ sleepq' = sleepq \cup {moving}
    /\ moving' = NoLWP
    /\ sq_mutex' = NoLWP
    /\ UNCHANGED <<mtx, items, pc, wait, timo, sig, err>>

-----------------------------------------------------------------------------
Init ==
    /\ mtx = NoLWP /\ sq_mutex = NoLWP
    /\ sleepq = {} /\ moving = NoLWP
    /\ items = 0
    /\ pc = [l \in LWP |-> "idle"]
    /\ wait = [l \in LWP |-> "none"]
    /\ timo = [l \in LWP |-> "idle"]
    /\ sig = [l \in LWP |-> FALSE]
    /\ err = [l \in LWP |-> FALSE]

\* The steps inside a call.
Runs(l) ==
    \/ Take(l) \/ CvEnter(l) \/ CvEnterExit(l) \/ BlockEarly(l) \/ Block(l)
    \/ HaltTimeout(l) \/ CheckSignal(l) \/ CvExit(l)
    \/ LookEmpty(l) \/ LookWaiters(l) \/ CvWakeup(l)

Next ==
    \/ \E l \in LWP :
          \/ \E w \in Waits : Get(l, w)
          \/ Put(l) \/ Runs(l)
          \/ TimeoutFires(l) \/ SleepqTimeout(l) \/ SigPost(l) \/ ChangePri(l)
    \/ ChangePriInsert

Spec == Init /\ [][Next]_vars

(***************************************************************************)
(* LWPs get on and enter a mutex that is free again and again; a running   *)
(* timeout and a priority change come to an end.  Nothing is assumed about *)
(* calls, timeouts and signals.                                            *)
(***************************************************************************)
FairSpec ==
    /\ Spec
    /\ \A l \in LWP : SF_vars(Runs(l)) /\ SF_vars(SleepqTimeout(l))
    /\ WF_vars(ChangePriInsert)

-----------------------------------------------------------------------------
TypeOK ==
    /\ mtx \in LWP \cup {NoLWP}
    /\ sq_mutex \in LWP \cup {NoLWP, Scheduler}
    /\ sleepq \in SUBSET LWP
    /\ moving \in LWP \cup {NoLWP}
    /\ items \in 0..MaxItems
    /\ pc \in [LWP -> {"idle", "test", "entered", "block", "asleep", "woken",
                       "unblocked", "exit", "signal", "broadcast",
                       "wakeup_one", "wakeup_all"}]
    /\ wait \in [LWP -> Waits \cup {"none"}]
    /\ timo \in [LWP -> {"idle", "pending", "running", "fired"}]
    /\ sig \in [LWP -> BOOLEAN]
    /\ err \in [LWP -> BOOLEAN]

Sleepers == sleepq \cup (LWP \cap {moving})

\* The LWPs that will look for an item, or tell another one to.
Awake == {l \in LWP : pc[l] \in {"test", "woken", "unblocked", "exit",
                                 "signal", "broadcast",
                                 "wakeup_one", "wakeup_all"}}

(***************************************************************************)
(* No wakeup is lost: while LWPs sleep, there is for every item an LWP     *)
(* that is on its way to it or on its way to wake another.  A wakeup given *)
(* to an LWP that has timed out or been interrupted must be passed on, and *)
(* cv_signal() must not miss a waiter in its unlocked look at the queue.   *)
(***************************************************************************)
NoWakeupLost == Sleepers # {} => items <= Cardinality(Awake)

(***************************************************************************)
(* A sleep timeout works only in the sleep that started it: it is neither  *)
(* pending nor running when the LWP has come out of sleepq_block().        *)
(***************************************************************************)
TimeoutInItsSleep ==
    \A l \in LWP :
        timo[l] \in {"pending", "running"} =>
            pc[l] \in {"asleep", "woken"} /\ Timed(l)

\* What is promised to the callers of the cv_*wait*() functions.
CondVarSafe == NoWakeupLost /\ TimeoutInItsSleep

(***************************************************************************)
(* What is inductive: who holds the two mutexes, who is on the queue, in   *)
(* which sleep a timeout is under way, and that the queue is not empty     *)
(* while an LWP is being moved in it.                                      *)
(***************************************************************************)
HoldInv ==
    /\ \A l \in LWP : mtx = l <=> pc[l] \in {"test", "entered", "signal",
                           "broadcast", "wakeup_one", "wakeup_all"}
    /\ \A l \in LWP : sq_mutex = l <=> pc[l] \in {"entered", "block"}
    /\ sq_mutex = Scheduler <=> moving # NoLWP

SleepInv ==
    /\ Sleepers = {l \in LWP : pc[l] \in {"entered", "block", "asleep"}}
    /\ moving # NoLWP => moving \notin sleepq /\ sleepq # {}

TimeoutInv ==
    \A l \in LWP :
        /\ timo[l] # "idle" => pc[l] \in {"asleep", "woken"} /\ Timed(l)
        /\ timo[l] = "fired" => pc[l] = "woken"

CondVarInv == TypeOK /\ HoldInv /\ SleepInv /\ TimeoutInv /\ NoWakeupLost

(***************************************************************************)
(* An item does not lie about while LWPs sleep for it.                     *)
(***************************************************************************)
ItemFindsWaiter ==
    (items > 0 /\ Sleepers # {}) ~> (items = 0 \/ Sleepers = {})
=============================================================================
