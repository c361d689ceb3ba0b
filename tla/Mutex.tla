------------------------------- MODULE Mutex --------------------------------
(***************************************************************************)
(* The adaptive mutex of sys/kern/kern_mutex.c, one mutex shared by a set  *)
(* of LWPs.  Every action is one access to shared memory or a section run  *)
(* under the turnstile chain lock; as in RWLock, taking the chain lock is  *)
(* merged with the access that follows it, and filling or draining the     *)
(* sleep queue with the access that precedes it.                           *)
(*                                                                         *)
(* The hard part is the release: mutex_exit() may test the waiters bit and *)
(* clear the lock word in two steps, and so wipe out a bit that another    *)
(* CPU sets in between.  What saves the waiter is that it looks, after it  *)
(* has set the bit, whether the owner is running: hence the variable       *)
(* onproc.  The code is the one for __HAVE_SIMPLE_MUTEXES, with the early  *)
(* release of LOCKDEBUG kernels as the two-step release.                   *)
(*                                                                         *)
(* A definition marked "Slip" is the one that follows it with a plausible  *)
(* mistake: the properties are shown to reject it.                         *)
(***************************************************************************)
EXTENDS Naturals, FiniteSets

CONSTANTS
    LWP,             \* the lwps that use the mutex
    NoLWP,           \* a null lwp pointer
    MULTIPROCESSOR,  \* the kernel option: mutex_onproc() is compiled in
    LOCKDEBUG        \* the kernel option: mutex_vector_exit() has a short cut

ASSUME MutexAssumption ==
    /\ IsFiniteSet(LWP)
    /\ NoLWP \notin LWP
    /\ MULTIPROCESSOR \in BOOLEAN
    /\ LOCKDEBUG \in BOOLEAN

VARIABLES
    mtx_owner,  \* the lock word, see Word
    sleepq,     \* the LWPs on the writer queue of the mutex's turnstile
    tc_mutex,   \* the LWP that holds the turnstile chain lock
    onproc,     \* is the LWP some CPU's ci_curlwp, not wanting the big lock?
    pc,         \* where each LWP is in the functions of kern_mutex.c
    owner       \* each LWP's local copy of mtx_owner

vars == <<mtx_owner, sleepq, tc_mutex, onproc, pc, owner>>

\* The lock word: MUTEX_THREAD and MUTEX_BIT_WAITERS.
Word == [thread: LWP \cup {NoLWP}, waiters: BOOLEAN]

Unowned == [thread |-> NoLWP, waiters |-> FALSE]

\* MUTEX_OWNED(w)
MUTEX_OWNED(w) == w # Unowned

\* mutex_onproc(w): the owner it names runs on a CPU and will not wait there
\* for the big lock.
MutexOnproc(w) == MULTIPROCESSOR /\ MUTEX_OWNED(w) /\ onproc[w.thread]

Goto(l, p) == pc' = [pc EXCEPT ![l] = p]

NoTurnstile == UNCHANGED <<sleepq, tc_mutex>>

\* turnstile_exit(): drop the chain lock and go back to the load.
Retry(l) ==
    /\ tc_mutex' = NoLWP
    /\ Goto(l, "reload")
    /\ UNCHANGED <<mtx_owner, sleepq, onproc, owner>>

-----------------------------------------------------------------------------
(***************************************************************************)
(* mutex_vector_enter(mtx).  A round of the loop starts with a load of     *)
(* mtx_owner; so does a round of the inner spin loop, and what follows the *)
(* load is the same in both, so that they are one here.                    *)
(***************************************************************************)
EnterCall(l) ==
    /\ pc[l] = "idle" /\ onproc[l]
    /\ Goto(l, "reload")
    /\ UNCHANGED <<mtx_owner, onproc, owner>>
    /\ NoTurnstile

EnterReload(l) ==
    /\ pc[l] = "reload" /\ onproc[l]
    /\ owner' = [owner EXCEPT ![l] = mtx_owner]
    /\ Goto(l, "enter")
    /\ UNCHANGED <<mtx_owner, onproc>>
    /\ NoTurnstile

\* Slip: the word read before is trusted.
MUTEX_ACQUIRE_STALE(l) ==
    mtx_owner' = [thread |-> l, waiters |-> FALSE] /\ Goto(l, "held")

\* MUTEX_ACQUIRE(): compare-and-swap from unowned to l.
MUTEX_ACQUIRE(l) ==
    IF mtx_owner = Unowned
    THEN mtx_owner' = [thread |-> l, waiters |-> FALSE] /\ Goto(l, "held")
    ELSE UNCHANGED mtx_owner /\ Goto(l, "reload")

\* The mutex looked free.
EnterAcquire(l) ==
    /\ pc[l] = "enter" /\ onproc[l]
    /\ ~MUTEX_OWNED(owner[l])
    /\ MUTEX_ACQUIRE(l)
    /\ UNCHANGED <<onproc, owner>>
    /\ NoTurnstile

\* The mutex was owned: spin while the owner runs.
EnterOwned(l) ==
    /\ pc[l] = "enter" /\ onproc[l]
    /\ MUTEX_OWNED(owner[l])
    /\ Goto(l, IF MutexOnproc(owner[l]) THEN "reload" ELSE "lookup")
    /\ UNCHANGED <<mtx_owner, onproc, owner>>
    /\ NoTurnstile

\* turnstile_lookup(), then MUTEX_SET_WAITERS(): fails if the word is no
\* longer the copy.
EnterSetWaiters(l) ==
    /\ pc[l] = "lookup" /\ onproc[l]
    /\ tc_mutex = NoLWP
    /\ IF mtx_owner = owner[l]
       THEN /\ mtx_owner' = [mtx_owner EXCEPT !.waiters = TRUE]
            /\ tc_mutex' = l
            /\ Goto(l, IF MULTIPROCESSOR THEN "checkproc" ELSE "block")
            /\ UNCHANGED <<sleepq, onproc, owner>>
       ELSE Retry(l)

\* Slip: the owner's status is not looked at again.
EnterCheckNothing(l) ==
    /\ pc[l] = "checkproc"
    /\ Goto(l, "checkwait")
    /\ UNCHANGED <<mtx_owner, onproc, owner>>
    /\ NoTurnstile

\* The owner runs again: it may be about to wipe out the waiters bit.
EnterCheckProc(l) ==
    /\ pc[l] = "checkproc"
    /\ IF MutexOnproc(owner[l])
       THEN Retry(l)
       ELSE /\ Goto(l, "checkwait")
            /\ UNCHANGED <<mtx_owner, onproc, owner>>
            /\ NoTurnstile

\* Slip: the waiters bit is taken to be set still.
EnterCheckNoWaiters(l) ==
    /\ pc[l] = "checkwait"
    /\ Goto(l, "block")
    /\ UNCHANGED <<mtx_owner, onproc, owner>>
    /\ NoTurnstile

\* MUTEX_HAS_WAITERS(): without the bit it is unsafe to sleep.
EnterCheckWaiters(l) ==
    /\ pc[l] = "checkwait"
    /\ IF ~mtx_owner.waiters
       THEN Retry(l)
       ELSE /\ Goto(l, "block")
            /\ UNCHANGED <<mtx_owner, onproc, owner>>
            /\ NoTurnstile

\* turnstile_block(): l sleeps and the chain lock is dropped.
EnterBlock(l) ==
    /\ pc[l] = "block"
    /\ sleepq' = sleepq \cup {l}
    /\ tc_mutex' = NoLWP
    /\ onproc' = [onproc EXCEPT ![l] = FALSE]
    /\ Goto(l, "asleep")
    /\ UNCHANGED <<mtx_owner, owner>>

\* mutex_tryenter(mtx)
TryEnter(l) ==
    /\ pc[l] = "idle" /\ onproc[l]
    /\ IF mtx_owner = Unowned
       THEN mtx_owner' = [thread |-> l, waiters |-> FALSE] /\ Goto(l, "held")
       ELSE UNCHANGED <<mtx_owner, pc>>
    /\ UNCHANGED <<onproc, owner>>
    /\ NoTurnstile

-----------------------------------------------------------------------------
(***************************************************************************)
(* mutex_vector_exit(mtx)                                                  *)
(***************************************************************************)

\* LOCKDEBUG, no waiters: release without the chain lock.  splhigh() makes
\* the test and the store one step on a uniprocessor only.
ExitShort(l) ==
    /\ pc[l] = "held" /\ onproc[l]
    /\ LOCKDEBUG /\ ~mtx_owner.waiters
    /\ IF MULTIPROCESSOR
       THEN Goto(l, "release") /\ UNCHANGED mtx_owner
       ELSE Goto(l, "idle") /\ mtx_owner' = Unowned
    /\ UNCHANGED <<onproc, owner>>
    /\ NoTurnstile

\* MUTEX_RELEASE(), a plain store.
ExitRelease(l) ==
    /\ pc[l] = "release"
    /\ mtx_owner' = Unowned
    /\ Goto(l, "idle")
    /\ UNCHANGED <<onproc, owner>>
    /\ NoTurnstile

ExitCall(l) ==
    /\ pc[l] = "held" /\ onproc[l]
    /\ LOCKDEBUG => mtx_owner.waiters
    /\ Goto(l, "exit")
    /\ UNCHANGED <<mtx_owner, onproc, owner>>
    /\ NoTurnstile

\* Slip: one sleeper is woken, the others are not.
ExitWakeOne(l) ==
    /\ pc[l] = "exit" /\ onproc[l]
    /\ tc_mutex = NoLWP
    /\ mtx_owner' = Unowned
    /\ \/ sleepq = {} /\ Goto(l, "idle") /\ UNCHANGED sleepq
       \/ \E x \in sleepq :
             /\ sleepq' = sleepq \ {x}
             /\ pc' = [pc EXCEPT ![l] = "idle", ![x] = "reload"]
    /\ UNCHANGED <<tc_mutex, onproc, owner>>

\* turnstile_lookup(), MUTEX_RELEASE(), and the whole queue is woken.
ExitWakeAll(l) ==
    /\ pc[l] = "exit" /\ onproc[l]
    /\ tc_mutex = NoLWP
    /\ mtx_owner' = Unowned
    /\ sleepq' = {}
    /\ pc' = [x \in LWP |-> IF x = l THEN "idle"
                            ELSE IF x \in sleepq THEN "reload" ELSE pc[x]]
    /\ UNCHANGED <<tc_mutex, onproc, owner>>

-----------------------------------------------------------------------------
(***************************************************************************)
(* mi_switch(), or a wait for the big lock.  An LWP that holds a spin      *)
(* mutex (the chain lock) or runs at splhigh() (the short release) is not  *)
(* switched; the fences of mi_switch() order the LWP's stores before.      *)
(***************************************************************************)
Switchable == {"idle", "reload", "enter", "lookup", "held", "exit"}

SwitchOut(l) ==
    /\ pc[l] \in Switchable /\ onproc[l]
    /\ onproc' = [onproc EXCEPT ![l] = FALSE]
    /\ UNCHANGED <<mtx_owner, sleepq, tc_mutex, pc, owner>>

SwitchIn(l) ==
    /\ pc[l] # "asleep" /\ ~onproc[l]
    /\ onproc' = [onproc EXCEPT ![l] = TRUE]
    /\ UNCHANGED <<mtx_owner, sleepq, tc_mutex, pc, owner>>

Init ==
    /\ mtx_owner = Unowned
    /\ sleepq = {}
    /\ tc_mutex = NoLWP
    /\ onproc = [l \in LWP |-> FALSE]
    /\ pc = [l \in LWP |-> "idle"]
    /\ owner = [l \in LWP |-> Unowned]

\* The steps inside a call.
Runs(l) ==
    \/ EnterReload(l) \/ EnterAcquire(l) \/ EnterOwned(l)
    \/ EnterSetWaiters(l) \/ EnterCheckProc(l) \/ EnterCheckWaiters(l)
    \/ EnterBlock(l)
    \/ ExitRelease(l) \/ ExitWakeAll(l)

Exits(l) == ExitShort(l) \/ ExitCall(l)

Next ==
    \E l \in LWP :
        \/ EnterCall(l) \/ TryEnter(l) \/ Exits(l) \/ Runs(l)
        \/ SwitchOut(l) \/ SwitchIn(l)

Spec == Init /\ [][Next]_vars

(***************************************************************************)
(* The scheduler runs every runnable LWP again and again, an LWP that runs *)
(* gets on inside the mutex code, and a holder releases the mutex in the   *)
(* end.  An LWP may be preempted between any two of its steps, so that the *)
(* steps need strong fairness.  Nothing is assumed about calls to enter.   *)
(***************************************************************************)
FairSpec ==
    /\ Spec
    /\ \A l \in LWP : /\ WF_vars(SwitchIn(l))
                      /\ SF_vars(Runs(l))
                      /\ SF_vars(Exits(l))

-----------------------------------------------------------------------------
TypeOK ==
    /\ mtx_owner \in Word
    /\ sleepq \in SUBSET LWP
    /\ tc_mutex \in LWP \cup {NoLWP}
    /\ onproc \in [LWP -> BOOLEAN]
    /\ pc \in [LWP -> {"idle", "reload", "enter", "lookup", "checkproc",
                       "checkwait", "block", "asleep", "held", "exit",
                       "release"}]
    /\ owner \in [LWP -> Word]

\* The LWPs that have entered and not released.
Holders == {l \in LWP : pc[l] \in {"held", "exit", "release"}}

(***************************************************************************)
(* Seen from outside, mutex_enter(), mutex_tryenter() and mutex_exit() are *)
(* the write side of the abstract lock.                                    *)
(***************************************************************************)
Lock == INSTANCE AbstractLock WITH readers <- {}, writers <- Holders

ImplementsLock == Lock!Spec

(***************************************************************************)
(* No wakeup is lost to the unlocked release: while an LWP sleeps, the     *)
(* mutex is owned, its waiters bit is set, and the owner is not past the   *)
(* test of that bit on the short way out.                                  *)
(***************************************************************************)
NoLostWaiter ==
    sleepq # {} =>
        /\ mtx_owner.waiters
        /\ mtx_owner.thread # NoLWP
        /\ pc[mtx_owner.thread] \in {"held", "exit"}

(***************************************************************************)
(* An LWP that goes to sleep in mutex_vector_enter() is woken.             *)
(***************************************************************************)
SleeperWoken == \A l \in LWP : pc[l] = "asleep" ~> pc[l] # "asleep"

-----------------------------------------------------------------------------
(***************************************************************************)
(* The inductive invariant.  An LWP that has found its owner's copy not    *)
(* running knows that no unlocked release of that owner is under way; and  *)
(* nobody but the LWP under the chain lock sets the bit meanwhile.         *)
(***************************************************************************)
UnderChainLock == {"checkproc", "checkwait", "block"}

\* The word names the holder; without one no bit is set.
WordInv ==
    /\ \A l \in LWP : l \in Holders <=> mtx_owner.thread = l
    /\ mtx_owner.waiters => mtx_owner.thread # NoLWP

\* The queue, the chain lock and the CPU are with whom pc says.
ControlInv ==
    \A l \in LWP :
        /\ l \in sleepq <=> pc[l] = "asleep"
        /\ tc_mutex = l <=> pc[l] \in UnderChainLock
        /\ pc[l] \in UnderChainLock \cup {"release"} => onproc[l]
        /\ pc[l] \in {"release", "checkproc", "checkwait"} => MULTIPROCESSOR

\* A copy of the word names an owner unless the mutex was free.
CopyInv ==
    \A l \in LWP :
        /\ owner[l].thread = NoLWP <=> ~MUTEX_OWNED(owner[l])
        /\ pc[l] \in UnderChainLock \cup {"lookup"} => MUTEX_OWNED(owner[l])

\* A release is under way with the bit set: the waiter is still checking.
ReleaseInv ==
    \A h, l \in LWP : pc[h] = "release" =>
        /\ mtx_owner.waiters => sleepq = {}
        /\ mtx_owner.waiters /\ pc[l] = "checkproc" => owner[l].thread = h
        /\ pc[l] # "block"
        /\ pc[l] = "checkwait" => ~mtx_owner.waiters

BlockInv == \A l \in LWP : pc[l] = "block" => mtx_owner.waiters

MutexInv ==
    /\ TypeOK
    /\ WordInv /\ ControlInv /\ CopyInv
    /\ ReleaseInv /\ BlockInv /\ NoLostWaiter
=============================================================================
