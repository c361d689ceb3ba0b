----------------------------- MODULE KernelProofs -----------------------------
(***************************************************************************)
(* Proofs about MCSync, for any number of LWPs, CPUs, items and calls:     *)
(* adaptive mutexes, which MCSync extends, and four of its parts, callouts *)
(* (CO), condition variables (CV), the big lock (KL) and RUN_ONCE() (ON).  *)
(* A component has a lemma for its initial states, one for each group of   *)
(* actions or part of its inductive invariant, one for a step, and the     *)
(* theorems: the invariant of the component, and the properties that       *)
(* follow from it.                                                         *)
(*                                                                         *)
(* An instance has its own names for the operators of FiniteSets: the      *)
(* lemmas about sets say that they mean the same.                          *)
(***************************************************************************)
EXTENDS MCSync, FiniteSetTheorems, TLAPS

(***************************************************************************)
(* Adaptive mutexes, with both values of MULTIPROCESSOR and LOCKDEBUG.     *)
(* The argument: while a release without an atomic operation is under way, *)
(* nobody has gone to sleep behind the waiters bit it may wipe out.        *)
(***************************************************************************)

\* The lock words that the steps write are lock words.
LEMMA Words ==
    /\ Unowned \in Word
    /\ \A x \in LWP : [thread |-> x, waiters |-> FALSE] \in Word
    /\ \A w \in Word : [w EXCEPT !.waiters = TRUE] \in Word
BY DEF Word, Unowned

\* MUTEX_OWNED() says whether the word names an owner or has the bit.
LEMMA UnownedWord ==
    ASSUME NEW w \in Word
    PROVE  MUTEX_OWNED(w) <=> w.thread # NoLWP \/ w.waiters
BY DEF Word, Unowned, MUTEX_OWNED

\* Nobody has the mutex to begin with, and nobody wants it.
LEMMA InitMutex ==
    ASSUME Init
    PROVE  MutexInv
BY MutexAssumption DEF Init, MutexInv, TypeOK, Word, Unowned, MUTEX_OWNED,
       WordInv, ControlInv, CopyInv, ReleaseInv, BlockInv, Holders,
       UnderChainLock, NoLostWaiter

-----------------------------------------------------------------------------
(* One lemma per action, and a step for each part of the invariant. *)

\* mutex_vector_enter() is called.
LEMMA EnterCallInv ==
    ASSUME MutexInv, NEW l \in LWP, EnterCall(l)
    PROVE  MutexInv'
<1> USE MutexAssumption DEF MutexInv, TypeOK, Goto, NoTurnstile, EnterCall
<1>1. TypeOK'
    BY Words DEF MUTEX_OWNED
<1>2. WordInv'
    BY <1>1 DEF WordInv, Holders, Word, Unowned, ControlInv
<1>3. ControlInv'
    BY <1>1 DEF ControlInv, UnderChainLock
<1>4. CopyInv'
    BY <1>1, UnownedWord DEF CopyInv, WordInv, UnderChainLock
<1>5. ReleaseInv'
    BY <1>1 DEF ReleaseInv, WordInv, ControlInv, CopyInv, BlockInv,
        NoLostWaiter, Word, Unowned, MUTEX_OWNED, Holders,
        UnderChainLock, MutexOnproc
<1>6. BlockInv'
    BY <1>1 DEF BlockInv, ReleaseInv, ControlInv, UnderChainLock,
        Unowned, Word
<1>7. NoLostWaiter'
    BY <1>1 DEF NoLostWaiter, WordInv, Holders, ControlInv, BlockInv,
        UnderChainLock, Word, Unowned, ReleaseInv
<1> QED
    BY <1>1, <1>2, <1>3, <1>4, <1>5, <1>6, <1>7

\* The word is copied.
LEMMA EnterReloadInv ==
    ASSUME MutexInv, NEW l \in LWP, EnterReload(l)
    PROVE  MutexInv'
<1> USE MutexAssumption DEF MutexInv, TypeOK, Goto, NoTurnstile, EnterReload
<1>1. TypeOK'
    BY Words DEF MUTEX_OWNED
<1>2. WordInv'
    BY <1>1 DEF WordInv, Holders, Word, Unowned, ControlInv
<1>3. ControlInv'
    BY <1>1 DEF ControlInv, UnderChainLock
<1>4. CopyInv'
    BY <1>1, UnownedWord DEF CopyInv, WordInv, UnderChainLock
<1>5. ReleaseInv'
    BY <1>1 DEF ReleaseInv, WordInv, ControlInv, CopyInv, BlockInv,
        NoLostWaiter, Word, Unowned, MUTEX_OWNED, Holders,
        UnderChainLock, MutexOnproc
<1>6. BlockInv'
    BY <1>1 DEF BlockInv, ReleaseInv, ControlInv, UnderChainLock,
        Unowned, Word
<1>7. NoLostWaiter'
    BY <1>1 DEF NoLostWaiter, WordInv, Holders, ControlInv, BlockInv,
        UnderChainLock, Word, Unowned, ReleaseInv
<1> QED
    BY <1>1, <1>2, <1>3, <1>4, <1>5, <1>6, <1>7

\* The compare-and-swap of MUTEX_ACQUIRE() takes the mutex or fails.
LEMMA EnterAcquireInv ==
    ASSUME MutexInv, NEW l \in LWP, EnterAcquire(l)
    PROVE  MutexInv'
<1> USE MutexAssumption DEF MutexInv, TypeOK, Goto, NoTurnstile,
        EnterAcquire, MUTEX_ACQUIRE
<1>1. TypeOK'
    BY Words DEF MUTEX_OWNED
<1>2. WordInv'
    BY <1>1 DEF WordInv, Holders, Word, Unowned, ControlInv
<1>3. ControlInv'
    BY <1>1 DEF ControlInv, UnderChainLock
<1>4. CopyInv'
    BY <1>1, UnownedWord DEF CopyInv, WordInv, UnderChainLock
<1>5. ReleaseInv'
    BY <1>1 DEF ReleaseInv, WordInv, ControlInv, CopyInv, BlockInv,
        NoLostWaiter, Word, Unowned, MUTEX_OWNED, Holders,
        UnderChainLock, MutexOnproc
<1>6. BlockInv'
    BY <1>1 DEF BlockInv, ReleaseInv, ControlInv, UnderChainLock,
        Unowned, Word
<1>7. NoLostWaiter'
    BY <1>1 DEF NoLostWaiter, WordInv, Holders, ControlInv, BlockInv,
        UnderChainLock, Word, Unowned, ReleaseInv
<1> QED
    BY <1>1, <1>2, <1>3, <1>4, <1>5, <1>6, <1>7

\* The owner of the copy runs, or the chain lock is next.
LEMMA EnterOwnedInv ==
    ASSUME MutexInv, NEW l \in LWP, EnterOwned(l)
    PROVE  MutexInv'
<1> USE MutexAssumption DEF MutexInv, TypeOK, Goto, NoTurnstile, EnterOwned
<1>1. TypeOK'
    BY Words DEF MUTEX_OWNED
<1>2. WordInv'
    BY <1>1 DEF WordInv, Holders, Word, Unowned, ControlInv
<1>3. ControlInv'
    BY <1>1 DEF ControlInv, UnderChainLock
<1>4. CopyInv'
    BY <1>1, UnownedWord DEF CopyInv, WordInv, UnderChainLock
<1>5. ReleaseInv'
    BY <1>1 DEF ReleaseInv, WordInv, ControlInv, CopyInv, BlockInv,
        NoLostWaiter, Word, Unowned, MUTEX_OWNED, Holders,
        UnderChainLock, MutexOnproc
<1>6. BlockInv'
    BY <1>1 DEF BlockInv, ReleaseInv, ControlInv, UnderChainLock,
        Unowned, Word
<1>7. NoLostWaiter'
    BY <1>1 DEF NoLostWaiter, WordInv, Holders, ControlInv, BlockInv,
        UnderChainLock, Word, Unowned, ReleaseInv
<1> QED
    BY <1>1, <1>2, <1>3, <1>4, <1>5, <1>6, <1>7

\* The bit is set under the chain lock, unless the word has changed.
LEMMA EnterSetWaitersInv ==
    ASSUME MutexInv, NEW l \in LWP, EnterSetWaiters(l)
    PROVE  MutexInv'
<1> USE MutexAssumption DEF MutexInv, TypeOK, Goto, NoTurnstile,
        EnterSetWaiters, Retry
<1>1. TypeOK'
    BY Words DEF MUTEX_OWNED
<1>2. WordInv'
    <2>1. Holders' = Holders
        BY <1>1 DEF Holders
    <2>2. mtx_owner'.thread = mtx_owner.thread
        BY DEF Word
    <2>3. ASSUME mtx_owner = owner[l]
          PROVE  mtx_owner.thread # NoLWP
        BY <2>3 DEF CopyInv, UnderChainLock
    <2> QED
        BY <2>1, <2>2, <2>3 DEF WordInv
<1>3. ControlInv'
    BY <1>1 DEF ControlInv, UnderChainLock
<1>4. CopyInv'
    BY <1>1, UnownedWord DEF CopyInv, WordInv, UnderChainLock
<1>5. ReleaseInv'
    BY <1>1 DEF ReleaseInv, WordInv, ControlInv, CopyInv, BlockInv,
        NoLostWaiter, Word, Unowned, MUTEX_OWNED, Holders,
        UnderChainLock, MutexOnproc
<1>6. BlockInv'
    BY <1>1 DEF BlockInv, ReleaseInv, ControlInv, UnderChainLock,
        Unowned, Word
<1>7. NoLostWaiter'
    BY <1>1 DEF NoLostWaiter, WordInv, Holders, ControlInv, BlockInv,
        UnderChainLock, Word, Unowned, ReleaseInv
<1> QED
    BY <1>1, <1>2, <1>3, <1>4, <1>5, <1>6, <1>7

\* A copy's owner that does not run is not releasing the mutex.
LEMMA EnterCheckProcInv ==
    ASSUME MutexInv, NEW l \in LWP, EnterCheckProc(l)
    PROVE  MutexInv'
<1> USE MutexAssumption DEF MutexInv, TypeOK, Goto, NoTurnstile,
        EnterCheckProc, Retry
<1>1. TypeOK'
    BY Words DEF MUTEX_OWNED
<1>2. WordInv'
    BY <1>1 DEF WordInv, Holders, Word, Unowned, ControlInv
<1>3. ControlInv'
    BY <1>1 DEF ControlInv, UnderChainLock
<1>4. CopyInv'
    BY <1>1, UnownedWord DEF CopyInv, WordInv, UnderChainLock
<1>5. ReleaseInv'
    BY <1>1 DEF ReleaseInv, WordInv, ControlInv, CopyInv, BlockInv,
        NoLostWaiter, Word, Unowned, MUTEX_OWNED, Holders,
        UnderChainLock, MutexOnproc
<1>6. BlockInv'
    BY <1>1 DEF BlockInv, ReleaseInv, ControlInv, UnderChainLock,
        Unowned, Word
<1>7. NoLostWaiter'
    BY <1>1 DEF NoLostWaiter, WordInv, Holders, ControlInv, BlockInv,
        UnderChainLock, Word, Unowned, ReleaseInv
<1> QED
    BY <1>1, <1>2, <1>3, <1>4, <1>5, <1>6, <1>7

\* A bit that is still there will be there when the LWP sleeps.
LEMMA EnterCheckWaitersInv ==
    ASSUME MutexInv, NEW l \in LWP, EnterCheckWaiters(l)
    PROVE  MutexInv'
<1> USE MutexAssumption DEF MutexInv, TypeOK, Goto, NoTurnstile,
        EnterCheckWaiters, Retry
<1>1. TypeOK'
    BY Words DEF MUTEX_OWNED
<1>2. WordInv'
    BY <1>1 DEF WordInv, Holders, Word, Unowned, ControlInv
<1>3. ControlInv'
    BY <1>1 DEF ControlInv, UnderChainLock
<1>4. CopyInv'
    BY <1>1, UnownedWord DEF CopyInv, WordInv, UnderChainLock
<1>5. ReleaseInv'
    BY <1>1 DEF ReleaseInv, WordInv, ControlInv, CopyInv, BlockInv,
        NoLostWaiter, Word, Unowned, MUTEX_OWNED, Holders,
        UnderChainLock, MutexOnproc
<1>6. BlockInv'
    BY <1>1 DEF BlockInv, ReleaseInv, ControlInv, UnderChainLock,
        Unowned, Word
<1>7. NoLostWaiter'
    BY <1>1 DEF NoLostWaiter, WordInv, Holders, ControlInv, BlockInv,
        UnderChainLock, Word, Unowned, ReleaseInv
<1> QED
    BY <1>1, <1>2, <1>3, <1>4, <1>5, <1>6, <1>7

\* The LWP sleeps and lets go of the chain lock.
LEMMA EnterBlockInv ==
    ASSUME MutexInv, NEW l \in LWP, EnterBlock(l)
    PROVE  MutexInv'
<1> USE MutexAssumption DEF MutexInv, TypeOK, Goto, NoTurnstile, EnterBlock
<1>1. TypeOK'
    BY Words DEF MUTEX_OWNED
<1>2. WordInv'
    BY <1>1 DEF WordInv, Holders, Word, Unowned, ControlInv
<1>3. ControlInv'
    BY <1>1 DEF ControlInv, UnderChainLock
<1>4. CopyInv'
    BY <1>1, UnownedWord DEF CopyInv, WordInv, UnderChainLock
<1>5. ReleaseInv'
    BY <1>1 DEF ReleaseInv, WordInv, ControlInv, CopyInv, BlockInv,
        NoLostWaiter, Word, Unowned, MUTEX_OWNED, Holders,
        UnderChainLock, MutexOnproc
<1>6. BlockInv'
    BY <1>1 DEF BlockInv, ReleaseInv, ControlInv, UnderChainLock,
        Unowned, Word
<1>7. NoLostWaiter'
    BY <1>1 DEF NoLostWaiter, WordInv, Holders, ControlInv, BlockInv,
        UnderChainLock, Word, Unowned, ReleaseInv
<1> QED
    BY <1>1, <1>2, <1>3, <1>4, <1>5, <1>6, <1>7

\* mutex_tryenter()
LEMMA TryEnterInv ==
    ASSUME MutexInv, NEW l \in LWP, TryEnter(l)
    PROVE  MutexInv'
<1> USE MutexAssumption DEF MutexInv, TypeOK, Goto, NoTurnstile, TryEnter
<1>1. TypeOK'
    BY Words DEF MUTEX_OWNED
<1>2. WordInv'
    BY <1>1 DEF WordInv, Holders, Word, Unowned, ControlInv
<1>3. ControlInv'
    BY <1>1 DEF ControlInv, UnderChainLock
<1>4. CopyInv'
    BY <1>1, UnownedWord DEF CopyInv, WordInv, UnderChainLock
<1>5. ReleaseInv'
    BY <1>1 DEF ReleaseInv, WordInv, ControlInv, CopyInv, BlockInv,
        NoLostWaiter, Word, Unowned, MUTEX_OWNED, Holders,
        UnderChainLock, MutexOnproc
<1>6. BlockInv'
    BY <1>1 DEF BlockInv, ReleaseInv, ControlInv, UnderChainLock,
        Unowned, Word
<1>7. NoLostWaiter'
    BY <1>1 DEF NoLostWaiter, WordInv, Holders, ControlInv, BlockInv,
        UnderChainLock, Word, Unowned, ReleaseInv
<1> QED
    BY <1>1, <1>2, <1>3, <1>4, <1>5, <1>6, <1>7

\* The short way out, with no bit seen.
LEMMA ExitShortInv ==
    ASSUME MutexInv, NEW l \in LWP, ExitShort(l)
    PROVE  MutexInv'
<1> USE MutexAssumption DEF MutexInv, TypeOK, Goto, NoTurnstile, ExitShort
<1>1. TypeOK'
    BY Words DEF MUTEX_OWNED
<1>2. WordInv'
    BY <1>1 DEF WordInv, Holders, Word, Unowned, ControlInv
<1>3. ControlInv'
    BY <1>1 DEF ControlInv, UnderChainLock
<1>4. CopyInv'
    BY <1>1, UnownedWord DEF CopyInv, WordInv, UnderChainLock
<1>5. ReleaseInv'
    BY <1>1 DEF ReleaseInv, WordInv, ControlInv, CopyInv, BlockInv,
        NoLostWaiter, Word, Unowned, MUTEX_OWNED, Holders,
        UnderChainLock, MutexOnproc
<1>6. BlockInv'
    BY <1>1 DEF BlockInv, ReleaseInv, ControlInv, UnderChainLock,
        Unowned, Word
<1>7. NoLostWaiter'
    BY <1>1 DEF NoLostWaiter, WordInv, Holders, ControlInv, BlockInv,
        UnderChainLock, Word, Unowned, ReleaseInv
<1> QED
    BY <1>1, <1>2, <1>3, <1>4, <1>5, <1>6, <1>7

\* The plain store wipes out no bit that an LWP relies on.
LEMMA ExitReleaseInv ==
    ASSUME MutexInv, NEW l \in LWP, ExitRelease(l)
    PROVE  MutexInv'
<1> USE MutexAssumption DEF MutexInv, TypeOK, Goto, NoTurnstile, ExitRelease
<1>1. TypeOK'
    BY Words DEF MUTEX_OWNED
<1>2. WordInv'
    BY <1>1 DEF WordInv, Holders, Word, Unowned, ControlInv
<1>3. ControlInv'
    BY <1>1 DEF ControlInv, UnderChainLock
<1>4. CopyInv'
    BY <1>1, UnownedWord DEF CopyInv, WordInv, UnderChainLock
<1>5. ReleaseInv'
    BY <1>1 DEF ReleaseInv, WordInv, ControlInv, CopyInv, BlockInv,
        NoLostWaiter, Word, Unowned, MUTEX_OWNED, Holders,
        UnderChainLock, MutexOnproc
<1>6. BlockInv'
    BY <1>1 DEF BlockInv, ReleaseInv, ControlInv, UnderChainLock,
        Unowned, Word
<1>7. NoLostWaiter'
    BY <1>1 DEF NoLostWaiter, WordInv, Holders, ControlInv, BlockInv,
        UnderChainLock, Word, Unowned, ReleaseInv
<1> QED
    BY <1>1, <1>2, <1>3, <1>4, <1>5, <1>6, <1>7

\* The long way out.
LEMMA ExitCallInv ==
    ASSUME MutexInv, NEW l \in LWP, ExitCall(l)
    PROVE  MutexInv'
<1> USE MutexAssumption DEF MutexInv, TypeOK, Goto, NoTurnstile, ExitCall
<1>1. TypeOK'
    BY Words DEF MUTEX_OWNED
<1>2. WordInv'
    BY <1>1 DEF WordInv, Holders, Word, Unowned, ControlInv
<1>3. ControlInv'
    BY <1>1 DEF ControlInv, UnderChainLock
<1>4. CopyInv'
    BY <1>1, UnownedWord DEF CopyInv, WordInv, UnderChainLock
<1>5. ReleaseInv'
    BY <1>1 DEF ReleaseInv, WordInv, ControlInv, CopyInv, BlockInv,
        NoLostWaiter, Word, Unowned, MUTEX_OWNED, Holders,
        UnderChainLock, MutexOnproc
<1>6. BlockInv'
    BY <1>1 DEF BlockInv, ReleaseInv, ControlInv, UnderChainLock,
        Unowned, Word
<1>7. NoLostWaiter'
    BY <1>1 DEF NoLostWaiter, WordInv, Holders, ControlInv, BlockInv,
        UnderChainLock, Word, Unowned, ReleaseInv
<1> QED
    BY <1>1, <1>2, <1>3, <1>4, <1>5, <1>6, <1>7

\* The mutex is released under the chain lock, and nobody sleeps on.
LEMMA ExitWakeAllInv ==
    ASSUME MutexInv, NEW l \in LWP, ExitWakeAll(l)
    PROVE  MutexInv'
<1> USE MutexAssumption DEF MutexInv, TypeOK, Goto, NoTurnstile, ExitWakeAll
<1>1. TypeOK'
    BY Words DEF MUTEX_OWNED
<1>2. WordInv'
    BY <1>1 DEF WordInv, Holders, Word, Unowned, ControlInv
<1>3. ControlInv'
    BY <1>1 DEF ControlInv, UnderChainLock
<1>4. CopyInv'
    BY <1>1, UnownedWord DEF CopyInv, WordInv, UnderChainLock
<1>5. ReleaseInv'
    BY <1>1 DEF ReleaseInv, WordInv, ControlInv, CopyInv, BlockInv,
        NoLostWaiter, Word, Unowned, MUTEX_OWNED, Holders,
        UnderChainLock, MutexOnproc
<1>6. BlockInv'
    BY <1>1 DEF BlockInv, ReleaseInv, ControlInv, UnderChainLock,
        Unowned, Word
<1>7. NoLostWaiter'
    BY <1>1 DEF NoLostWaiter, WordInv, Holders, ControlInv, BlockInv,
        UnderChainLock, Word, Unowned, ReleaseInv
<1> QED
    BY <1>1, <1>2, <1>3, <1>4, <1>5, <1>6, <1>7

\* An LWP loses the CPU, but not under the chain lock.
LEMMA SwitchOutInv ==
    ASSUME MutexInv, NEW l \in LWP, SwitchOut(l)
    PROVE  MutexInv'
<1> USE MutexAssumption DEF MutexInv, TypeOK, Goto, NoTurnstile, SwitchOut,
        Switchable
<1>1. TypeOK'
    BY Words DEF MUTEX_OWNED
<1>2. WordInv'
    BY <1>1 DEF WordInv, Holders, Word, Unowned, ControlInv
<1>3. ControlInv'
    BY <1>1 DEF ControlInv, UnderChainLock
<1>4. CopyInv'
    BY <1>1, UnownedWord DEF CopyInv, WordInv, UnderChainLock
<1>5. ReleaseInv'
    BY <1>1 DEF ReleaseInv, WordInv, ControlInv, CopyInv, BlockInv,
        NoLostWaiter, Word, Unowned, MUTEX_OWNED, Holders,
        UnderChainLock, MutexOnproc
<1>6. BlockInv'
    BY <1>1 DEF BlockInv, ReleaseInv, ControlInv, UnderChainLock,
        Unowned, Word
<1>7. NoLostWaiter'
    BY <1>1 DEF NoLostWaiter, WordInv, Holders, ControlInv, BlockInv,
        UnderChainLock, Word, Unowned, ReleaseInv
<1> QED
    BY <1>1, <1>2, <1>3, <1>4, <1>5, <1>6, <1>7

\* An LWP gets the CPU.
LEMMA SwitchInInv ==
    ASSUME MutexInv, NEW l \in LWP, SwitchIn(l)
    PROVE  MutexInv'
<1> USE MutexAssumption DEF MutexInv, TypeOK, Goto, NoTurnstile, SwitchIn
<1>1. TypeOK'
    BY Words DEF MUTEX_OWNED
<1>2. WordInv'
    BY <1>1 DEF WordInv, Holders, Word, Unowned, ControlInv
<1>3. ControlInv'
    BY <1>1 DEF ControlInv, UnderChainLock
<1>4. CopyInv'
    BY <1>1, UnownedWord DEF CopyInv, WordInv, UnderChainLock
<1>5. ReleaseInv'
    BY <1>1 DEF ReleaseInv, WordInv, ControlInv, CopyInv, BlockInv,
        NoLostWaiter, Word, Unowned, MUTEX_OWNED, Holders,
        UnderChainLock, MutexOnproc
<1>6. BlockInv'
    BY <1>1 DEF BlockInv, ReleaseInv, ControlInv, UnderChainLock,
        Unowned, Word
<1>7. NoLostWaiter'
    BY <1>1 DEF NoLostWaiter, WordInv, Holders, ControlInv, BlockInv,
        UnderChainLock, Word, Unowned, ReleaseInv
<1> QED
    BY <1>1, <1>2, <1>3, <1>4, <1>5, <1>6, <1>7

\* Every step keeps the invariant.
LEMMA NextMutex ==
    ASSUME MutexInv, [Next]_vars
    PROVE  MutexInv'
<1>1. CASE UNCHANGED vars
    BY <1>1 DEF vars, MutexInv, TypeOK, WordInv, ControlInv, CopyInv,
        ReleaseInv, BlockInv, Holders, NoLostWaiter
<1> QED
    BY <1>1, EnterCallInv, EnterReloadInv, EnterAcquireInv, EnterOwnedInv,
       EnterSetWaitersInv, EnterCheckProcInv, EnterCheckWaitersInv,
       EnterBlockInv, TryEnterInv, ExitShortInv, ExitReleaseInv, ExitCallInv,
       ExitWakeAllInv, SwitchOutInv, SwitchInInv DEF Next, Runs, Exits

(***************************************************************************)
(* The invariant of the mutex: one LWP at most is past mutex_enter(), and  *)
(* an LWP that has found its owner not running is not overtaken by the     *)
(* plain store of MUTEX_RELEASE().                                         *)
(***************************************************************************)
THEOREM MutexInvariance == Spec => []MutexInv
BY InitMutex, NextMutex, PTL DEF Spec

(***************************************************************************)
(* No LWP sleeps on in mutex_vector_enter() with its waiters bit wiped out *)
(* by the unlocked release of mutex_vector_exit().                         *)
(***************************************************************************)
THEOREM NoWaiterLost == Spec => []NoLostWaiter
<1>1. MutexInv => NoLostWaiter
    BY DEF MutexInv
<1> QED
    BY <1>1, MutexInvariance, PTL

-----------------------------------------------------------------------------
(* The mutex implements the abstract lock. *)

\* Who holds a mutex holds it alone.
LEMMA HoldersAre ==
    ASSUME MutexInv, NEW l \in LWP
    PROVE  /\ mtx_owner = Unowned => Holders = {}
           /\ l \in Holders => Holders = {l}
<1>1. mtx_owner = Unowned => mtx_owner.thread = NoLWP
    BY DEF Unowned
<1> QED
    BY <1>1, MutexAssumption DEF MutexInv, WordInv, Holders, TypeOK, Word

\* Taking an unowned mutex is a step of the abstract lock ...
LEMMA Acquires ==
    ASSUME MutexInv, NEW l \in LWP, mtx_owner = Unowned,
           pc' = [pc EXCEPT ![l] = "held"]
    PROVE  Lock!Next
<1>1. Holders = {}
    BY HoldersAre
<1>2. Holders' = {l}
    BY <1>1 DEF Holders, MutexInv, TypeOK
<1>3. Lock!EnterWrite(l)
    BY <1>1, <1>2 DEF Lock!EnterWrite
<1> QED
    BY <1>3 DEF Lock!Next

\* ... and so is letting go of it.
LEMMA Releases ==
    ASSUME MutexInv, NEW l \in LWP, l \in Holders,
           Holders' \subseteq Holders \ {l}
    PROVE  Lock!Next
<1>1. Holders = {l} /\ Holders' = {}
    BY HoldersAre
<1>2. Lock!ExitWrite(l, {})
    BY <1>1 DEF Lock!ExitWrite
<1> QED
    BY <1>2 DEF Lock!Next

\* Every step of the mutex is one of the abstract lock or changes nothing.
LEMMA NextRefines ==
    ASSUME MutexInv, [Next]_vars
    PROVE  [Lock!Next]_(Lock!vars)
<1> USE DEF MutexInv, TypeOK, Goto
<1> SUFFICES ASSUME Holders' # Holders
             PROVE  Lock!Next
    BY DEF Lock!vars
<1>1. ASSUME NEW l \in LWP, EnterAcquire(l) \/ TryEnter(l)
      PROVE  Lock!Next
    <2>1. mtx_owner = Unowned /\ pc' = [pc EXCEPT ![l] = "held"]
        BY <1>1 DEF EnterAcquire, MUTEX_ACQUIRE, TryEnter, Holders
    <2> QED
        BY <2>1, Acquires
<1>2. ASSUME NEW l \in LWP, Exits(l) \/ ExitRelease(l) \/ ExitWakeAll(l)
      PROVE  Lock!Next
    <2>1. l \in Holders /\ Holders' \subseteq Holders \ {l}
        BY <1>2 DEF Exits, ExitShort, ExitCall, ExitRelease, ExitWakeAll,
            Holders
    <2> QED
        BY <2>1, Releases
<1>3. ASSUME NEW l \in LWP,
             \/ EnterCall(l) \/ EnterReload(l) \/ EnterOwned(l)
             \/ EnterSetWaiters(l) \/ EnterCheckProc(l)
             \/ EnterCheckWaiters(l) \/ EnterBlock(l)
             \/ SwitchOut(l) \/ SwitchIn(l)
      PROVE  FALSE
    BY <1>3 DEF EnterCall, EnterReload, EnterOwned, EnterSetWaiters,
        EnterCheckProc, EnterCheckWaiters, EnterBlock, Retry, SwitchOut,
        SwitchIn, Holders
<1>4. CASE UNCHANGED vars
    BY <1>4 DEF vars, Holders
<1> QED
    BY <1>1, <1>2, <1>3, <1>4 DEF Next, Runs

(***************************************************************************)
(* mutex_enter(), mutex_tryenter() and mutex_exit() implement the write    *)
(* side of the abstract lock, whichever of the releases is taken.          *)
(***************************************************************************)
THEOREM MutexIsLock == Spec => ImplementsLock
<1>1. Init => Lock!Init
    BY DEF Init, Lock!Init, Holders
<1> QED
    BY <1>1, NextRefines, MutexInvariance, PTL DEF Spec, Lock!Spec,
       ImplementsLock

(***************************************************************************)
(* Callouts.  The argument: an LWP sleeps on the CPU whose softclock it    *)
(* has seen at work, under the lock of that CPU; and a bound callout is    *)
(* run nowhere else.                                                       *)
(***************************************************************************)

LEMMA CalloutSets ==
    /\ \A S : CO!IsFiniteSet(S) <=> IsFiniteSet(S)
    /\ \A S : CO!Cardinality(S) = Cardinality(S)
<1>1. \A S : CO!IsFiniteSet(S) <=> IsFiniteSet(S)
    BY DEF CO!IsFiniteSet, IsFiniteSet
<1>2. \A S : CO!Cardinality(S) = Cardinality(S)
    BY DEF CO!Cardinality, Cardinality
<1> QED
    BY <1>1, <1>2

LEMMA CalloutInit ==
    ASSUME CO!CalloutAssumption, CO!Init
    PROVE  CO!CalloutInv
<1>1. CO!Cardinality(LWP) \in Nat
    BY CalloutSets, FS_CardinalityType DEF CO!CalloutAssumption
<1>2. CO!TypeOK
  <2>1. /\ pending \in BOOLEAN /\ fired \in BOOLEAN /\ invoking \in BOOLEAN
        /\ quiet \in [LWP -> BOOLEAN]
      BY Zenon DEF CO!Init
  <2>2. /\ cc_nwait \in [CPU -> 0..CO!Cardinality(LWP)]
        /\ schedules \in 0..MaxSchedules
      BY <1>1 DEF CO!CalloutAssumption, CO!Init
  <2> QED
      BY <2>1, <2>2 DEF CO!Init, CO!TypeOK
<1>3. CO!HaltWaiterCounted
    BY <1>2, CalloutSets, FS_EmptySet DEF CO!Init, CO!HaltWaiterCounted
<1> QED
    BY <1>3 DEF CO!Init, CO!CalloutInv, CO!QueueInv, CO!QuietInv

\* As many LWPs are counted as there are.
LEMMA CalloutCounts ==
    ASSUME CO!CalloutAssumption, CO!TypeOK, NEW k \in CPU
    PROVE  /\ CO!Cardinality(cc_sleepq[k]) \in 0..CO!Cardinality(LWP)
           /\ \A S \in SUBSET cc_sleepq[k] :
                 CO!Cardinality(S) = CO!Cardinality(cc_sleepq[k]) => S = cc_sleepq[k]
           /\ \A l \in LWP \ cc_sleepq[k] :
                 /\ CO!Cardinality(cc_sleepq[k] \cup {l})
                        = CO!Cardinality(cc_sleepq[k]) + 1
                 /\ CO!Cardinality(cc_sleepq[k]) + 1 \in 0..CO!Cardinality(LWP)
<1>1. IsFiniteSet(LWP) /\ cc_sleepq[k] \in SUBSET LWP
    BY CalloutSets DEF CO!CalloutAssumption, CO!TypeOK
<1>2. /\ IsFiniteSet(cc_sleepq[k])
      /\ Cardinality(cc_sleepq[k]) <= Cardinality(LWP)
    BY <1>1, FS_Subset
<1>3. Cardinality(LWP) \in Nat /\ Cardinality(cc_sleepq[k]) \in Nat
    BY <1>1, <1>2, FS_CardinalityType
<1>4. \A S \in SUBSET cc_sleepq[k] :
         Cardinality(S) = Cardinality(cc_sleepq[k]) => S = cc_sleepq[k]
    BY <1>2, FS_Subset
<1>5. ASSUME NEW l \in LWP \ cc_sleepq[k]
      PROVE  /\ Cardinality(cc_sleepq[k] \cup {l})
                    = Cardinality(cc_sleepq[k]) + 1
             /\ Cardinality(cc_sleepq[k]) + 1 \in 0..Cardinality(LWP)
  <2>1. Cardinality(cc_sleepq[k] \cup {l}) = Cardinality(cc_sleepq[k]) + 1
      BY <1>2, FS_AddElement
  <2>2. cc_sleepq[k] \cup {l} \in SUBSET LWP
      BY <1>1
  <2>3. Cardinality(cc_sleepq[k] \cup {l}) <= Cardinality(LWP)
      BY <1>1, <2>2, FS_Subset
  <2> QED
      BY <2>1, <2>3, <1>3
<1> QED
    BY <1>2, <1>3, <1>4, <1>5, CalloutSets

\* The steps that leave the sleep queues alone.
LEMMA CalloutQueuesKept ==
    ASSUME CO!CalloutAssumption, CO!CalloutInv, CO!TypeOK',
           UNCHANGED <<cc_nwait, cc_sleepq, co_pc>>,
           cc_active \subseteq cc_active'
    PROVE  CO!HaltWaiterCounted' /\ CO!QueueInv'
BY DEF CO!CalloutInv, CO!HaltWaiterCounted, CO!QueueInv

\* callout_schedule(), callout_stop(), callout_ack() and the softclock.
LEMMA CalloutQuick ==
    ASSUME CO!CalloutAssumption, CO!CalloutInv,
           \/ CO!Stop \/ CO!Ack
           \/ \E k \in CPU : CO!Schedule(k) \/ CO!SoftclockTake(k)
    PROVE  CO!CalloutInv'
<1>1. CO!TypeOK
    BY DEF CO!CalloutInv, CO!HaltWaiterCounted
<1>2. CASE CO!Stop
  <2>1. CO!TypeOK'
      BY <1>1, <1>2 DEF CO!TypeOK, CO!Stop
  <2>2. CO!QuietInv'
      BY <1>2 DEF CO!CalloutInv, CO!QuietInv, CO!Stop
  <2> QED
      BY <1>2, <2>1, <2>2, CalloutQueuesKept DEF CO!Stop, CO!CalloutInv
<1>3. CASE CO!Ack
  <2>1. CO!TypeOK'
      BY <1>1, <1>3 DEF CO!TypeOK, CO!Ack
  <2>2. CO!QuietInv'
      BY <1>3 DEF CO!CalloutInv, CO!QuietInv, CO!Ack
  <2> QED
      BY <1>3, <2>1, <2>2, CalloutQueuesKept DEF CO!Ack, CO!CalloutInv
<1>4. ASSUME NEW k \in CPU, CO!Schedule(k)
      PROVE  CO!CalloutInv'
  <2>0. c_cpu' \in CPU /\ bound' = bound /\ (bound => c_cpu' = c_cpu)
    <3>1. CASE pending
        BY <1>1, <1>4, <3>1 DEF CO!TypeOK, CO!Schedule
    <3>2. CASE ~pending
        BY <1>1, <1>4, <3>2 DEF CO!TypeOK, CO!Schedule, CO!NewCPU
    <3> QED
        BY <3>1, <3>2
  <2>1. CO!TypeOK'
    <3>1. /\ pending' \in BOOLEAN /\ fired' \in BOOLEAN
          /\ invoking' \in BOOLEAN /\ quiet' \in [LWP -> BOOLEAN]
        BY <1>4, Zenon DEF CO!Schedule
    <3>2. schedules' \in 0..MaxSchedules
        BY <1>1, <1>4 DEF CO!CalloutAssumption, CO!TypeOK, CO!Schedule
    <3> QED
        BY <1>1, <1>4, <2>0, <3>1, <3>2 DEF CO!TypeOK, CO!Schedule
  <2>2. CO!QuietInv'
      BY <1>1, <1>4, <2>0 DEF CO!CalloutInv, CO!QuietInv, CO!Schedule
  <2> QED
      BY <1>4, <2>1, <2>2, CalloutQueuesKept DEF CO!Schedule, CO!CalloutInv
<1>5. ASSUME NEW k \in CPU, CO!SoftclockTake(k)
      PROVE  CO!CalloutInv'
  <2>1. CO!TypeOK'
      BY <1>1, <1>5 DEF CO!TypeOK, CO!SoftclockTake
  <2>2. CO!QuietInv'
      BY <1>1, <1>5 DEF CO!CalloutInv, CO!QuietInv, CO!SoftclockTake
  <2> QED
      BY <1>5, <2>1, <2>2, CalloutQueuesKept DEF CO!SoftclockTake, CO!CalloutInv
<1> QED
    BY <1>2, <1>3, <1>4, <1>5

\* The loop of callout_halt(), by an LWP that is not asleep: it goes to sleep,
\* counted, or returns.
LEMMA CalloutHaltWait ==
    ASSUME CO!CalloutAssumption, CO!CalloutInv, NEW l \in LWP,
           co_pc[l] # "asleep", CO!HaltWait(l),
           pending' \in BOOLEAN, fired' \in BOOLEAN,
           quiet' \in [LWP -> BOOLEAN],
           \A x \in LWP : quiet'[x] => ~pending',
           \A x \in LWP : x # l /\ quiet'[x] => quiet[x],
           UNCHANGED <<bound, invoking, c_cpu, cc_active, schedules>>
    PROVE  CO!CalloutInv'
<1>0. CO!TypeOK
    BY DEF CO!CalloutInv, CO!HaltWaiterCounted
<1>1. CASE c_cpu \in cc_active
  <2>0. /\ cc_nwait' = [cc_nwait EXCEPT ![c_cpu] = @ + 1]
        /\ cc_sleepq' = [cc_sleepq EXCEPT ![c_cpu] = @ \cup {l}]
        /\ co_pc' = [co_pc EXCEPT ![l] = "asleep"]
      BY <1>1 DEF CO!HaltWait
  <2>1. l \notin cc_sleepq[c_cpu] /\ c_cpu \in CPU
      BY <1>0 DEF CO!CalloutInv, CO!QueueInv, CO!TypeOK
  <2>2. /\ CO!Cardinality(cc_sleepq[c_cpu] \cup {l})
              = CO!Cardinality(cc_sleepq[c_cpu]) + 1
        /\ CO!Cardinality(cc_sleepq[c_cpu]) + 1 \in 0..CO!Cardinality(LWP)
        /\ cc_nwait[c_cpu] = CO!Cardinality(cc_sleepq[c_cpu])
      BY <1>0, <2>1, CalloutCounts DEF CO!CalloutInv, CO!HaltWaiterCounted
  <2>3. CO!TypeOK'
      BY <1>0, <2>0, <2>1, <2>2 DEF CO!TypeOK
  <2>4. CO!HaltWaiterCounted'
      BY <1>0, <1>1, <2>0, <2>1, <2>2, <2>3
      DEF CO!CalloutInv, CO!HaltWaiterCounted, CO!TypeOK
  <2>5. CO!QueueInv'
      BY <1>0, <2>0 DEF CO!CalloutInv, CO!QueueInv, CO!TypeOK
  <2>6. CO!QuietInv'
      BY <1>0, <1>1, <2>0 DEF CO!CalloutInv, CO!QuietInv, CO!TypeOK
  <2> QED
      BY <2>4, <2>5, <2>6 DEF CO!CalloutInv
<1>2. CASE c_cpu \notin cc_active
  <2>0. /\ co_pc' = [co_pc EXCEPT ![l] = "halted"]
        /\ UNCHANGED <<cc_nwait, cc_sleepq>>
      BY <1>2 DEF CO!HaltWait
  <2>1. CO!TypeOK'
      BY <1>0, <2>0 DEF CO!TypeOK
  <2>2. CO!HaltWaiterCounted'
      BY <1>0, <2>0, <2>1 DEF CO!CalloutInv, CO!HaltWaiterCounted, CO!TypeOK
  <2>3. CO!QueueInv'
      BY <1>0, <2>0 DEF CO!CalloutInv, CO!QueueInv, CO!TypeOK
  <2>4. CO!QuietInv'
      BY <1>0, <1>2, <2>0 DEF CO!CalloutInv, CO!QuietInv, CO!TypeOK
  <2> QED
      BY <2>2, <2>3, <2>4 DEF CO!CalloutInv
<1> QED
    BY <1>1, <1>2

LEMMA CalloutHalt ==
    ASSUME CO!CalloutAssumption, CO!CalloutInv, NEW l \in LWP,
           CO!Halt(l) \/ CO!HaltAgain(l)
    PROVE  CO!CalloutInv'
<1>0. CO!TypeOK
    BY DEF CO!CalloutInv, CO!HaltWaiterCounted
<1>1. CASE CO!HaltAgain(l)
    BY <1>0, <1>1, CalloutHaltWait
    DEF CO!HaltAgain, CO!TypeOK, CO!CalloutInv, CO!QuietInv
<1>2. CASE CO!Halt(l)
  <2>0. /\ co_pc[l] # "asleep"
        /\ pending' = FALSE /\ fired' = FALSE
        /\ quiet' = [quiet EXCEPT ![l] = TRUE]
        /\ UNCHANGED <<bound, invoking, c_cpu, cc_active, schedules>>
      BY <1>2 DEF CO!Halt
  <2>1. /\ pending' \in BOOLEAN /\ fired' \in BOOLEAN
        /\ quiet' \in [LWP -> BOOLEAN]
    <3>1. \A x \in LWP : quiet'[x] \in BOOLEAN
        BY <1>0, <2>0, Zenon DEF CO!TypeOK
    <3> QED
        BY <1>0, <2>0, <3>1 DEF CO!TypeOK
  <2>2. \A x \in LWP : x # l /\ quiet'[x] => quiet[x]
      BY <1>0, <2>0 DEF CO!TypeOK
  <2>3. CASE CO!HaltWait(l)
      BY <2>0, <2>1, <2>2, <2>3, CalloutHaltWait
  <2>4. CASE /\ c_cpu \in cc_active
             /\ co_pc' = [co_pc EXCEPT ![l] = "relock"]
             /\ UNCHANGED <<cc_nwait, cc_sleepq>>
    <3>1. CO!TypeOK'
        BY <1>0, <2>0, <2>1, <2>4 DEF CO!TypeOK
    <3>2. CO!HaltWaiterCounted'
        BY <1>0, <2>0, <2>4, <3>1
        DEF CO!CalloutInv, CO!HaltWaiterCounted, CO!TypeOK
    <3>3. CO!QueueInv'
        BY <1>0, <2>0, <2>4 DEF CO!CalloutInv, CO!QueueInv, CO!TypeOK
    <3>4. CO!QuietInv'
        BY <1>0, <2>0, <2>2, <2>4 DEF CO!CalloutInv, CO!QuietInv, CO!TypeOK
    <3> QED
        BY <3>2, <3>3, <3>4 DEF CO!CalloutInv
  <2> QED
      BY <1>2, <2>3, <2>4 DEF CO!Halt
<1> QED
    BY <1>1, <1>2

\* Every LWP that waits for the function is woken: they are as many as are
\* counted.
LEMMA CalloutDone ==
    ASSUME CO!CalloutAssumption, CO!CalloutInv, NEW k \in CPU,
           CO!SoftclockDone(k)
    PROVE  CO!CalloutInv'
<1>0. CO!TypeOK
    BY DEF CO!CalloutInv, CO!HaltWaiterCounted
<1>1. PICK S \in SUBSET cc_sleepq[k] :
         /\ CO!Cardinality(S) = cc_nwait[k]
         /\ cc_sleepq' = [cc_sleepq EXCEPT ![k] = @ \ S]
         /\ co_pc' = [l \in LWP |-> IF l \in S THEN "relock" ELSE co_pc[l]]
    BY DEF CO!SoftclockDone
<1>2. S = cc_sleepq[k]
    BY <1>0, <1>1, CalloutCounts DEF CO!CalloutInv, CO!HaltWaiterCounted
<1>3. /\ cc_active' = cc_active \ {k}
      /\ cc_nwait' = [cc_nwait EXCEPT ![k] = 0]
      /\ cc_sleepq' = [cc_sleepq EXCEPT ![k] = {}]
      /\ co_pc' = [l \in LWP |-> IF l \in cc_sleepq[k] THEN "relock" ELSE co_pc[l]]
      /\ UNCHANGED <<bound, pending, fired, invoking, c_cpu, quiet, schedules>>
  <2>1. cc_sleepq[k] \ S = {}
      BY <1>2
  <2> QED
      BY <1>0, <1>1, <1>2, <2>1 DEF CO!SoftclockDone, CO!TypeOK
<1>4. CO!TypeOK'
  <2>1. 0 \in 0..CO!Cardinality(LWP)
      BY CalloutSets, FS_CardinalityType DEF CO!CalloutAssumption
  <2> QED
      BY <1>0, <1>3, <2>1 DEF CO!TypeOK
<1>5. CO!HaltWaiterCounted'
  <2>1. CO!Cardinality({}) = 0
      BY CalloutSets, FS_EmptySet
  <2>2. ASSUME NEW j \in CPU
        PROVE  /\ cc_nwait'[j] = CO!Cardinality(cc_sleepq'[j])
               /\ cc_sleepq'[j] # {} => j \in cc_active'
      BY <1>0, <1>3, <2>1 DEF CO!CalloutInv, CO!HaltWaiterCounted, CO!TypeOK
  <2>3. ASSUME NEW l \in LWP, co_pc'[l] = "asleep"
        PROVE  \E j \in CPU : l \in cc_sleepq'[j]
    <3>1. co_pc[l] = "asleep" /\ l \notin cc_sleepq[k]
        BY <1>3, <2>3
    <3>2. PICK j \in CPU : l \in cc_sleepq[j]
        BY <3>1 DEF CO!CalloutInv, CO!HaltWaiterCounted
    <3>3. l \in cc_sleepq'[j]
        BY <1>0, <1>3, <3>1, <3>2 DEF CO!TypeOK
    <3> QED
        BY <3>3
  <2> QED
      BY <1>4, <2>2, <2>3 DEF CO!HaltWaiterCounted
<1>6. CO!QueueInv'
  <2>1. ASSUME NEW j \in CPU
        PROVE  /\ cc_sleepq'[j] \subseteq cc_sleepq[j]
               /\ j = k => cc_sleepq'[j] = {}
      BY <1>0, <1>3 DEF CO!TypeOK
  <2>2. \A j \in CPU : \A l \in cc_sleepq'[j] :
           l \in LWP /\ l \notin cc_sleepq[k] /\ co_pc[l] = "asleep"
      BY <1>0, <2>1 DEF CO!TypeOK, CO!CalloutInv, CO!QueueInv
  <2>3. \A j \in CPU : \A l \in cc_sleepq'[j] : co_pc'[l] = "asleep"
      BY <1>3, <2>2
  <2> QED
      BY <2>1, <2>3 DEF CO!CalloutInv, CO!QueueInv
<1>7. CO!QuietInv'
    BY <1>0, <1>3 DEF CO!CalloutInv, CO!QuietInv, CO!TypeOK
<1> QED
    BY <1>5, <1>6, <1>7 DEF CO!CalloutInv

LEMMA CalloutStep ==
    ASSUME CO!CalloutAssumption, CO!CalloutInv, [CO!Next]_(CO!vars)
    PROVE  CO!CalloutInv'
<1>1. CASE CO!Next
    BY <1>1, CalloutQuick, CalloutHalt, CalloutDone DEF CO!Next
<1>2. CASE UNCHANGED CO!vars
    BY <1>2 DEF CO!vars, CO!CalloutInv, CO!HaltWaiterCounted, CO!TypeOK,
        CO!QueueInv, CO!QuietInv
<1> QED
    BY <1>1, <1>2

(***************************************************************************)
(* The inductive invariant of callout_halt(), of the behaviours of the     *)
(* callout.                                                                *)
(***************************************************************************)
THEOREM CalloutInvariance ==
    ASSUME CO!CalloutAssumption
    PROVE  CO!Spec => []CO!CalloutInv
BY CalloutInit, CalloutStep, PTL DEF CO!Spec

\* What callout_halt() promises follows from it: the function can run on the
\* CPU of a bound callout only, and not there once an LWP has halted it.
LEMMA CalloutInvSafe == CO!CalloutInv => CO!CalloutSafe
<1>1. ASSUME CO!CalloutInv, bound, NEW l \in LWP, co_pc[l] = "halted", quiet[l]
      PROVE  ~pending /\ cc_active = {}
    BY <1>1 DEF CO!CalloutInv, CO!QuietInv
<1> QED
    BY <1>1 DEF CO!CalloutInv, CO!CalloutSafe, CO!HaltQuiesces

(***************************************************************************)
(* callout_halt() by any number of LWPs, with any number of CPUs: an LWP   *)
(* sleeps in it only on a CPU whose softclock runs a function, and is      *)
(* counted there, so that it is woken; and if nothing has scheduled a      *)
(* bound callout since the call, then on return it is not pending and its  *)
(* function does not run on any CPU.                                       *)
(***************************************************************************)
THEOREM HaltIsSafe == PartsSpec => []CalloutSafe
<1> DEFINE Inv == part = "callout" => CO!CalloutInv
<1>1. PartsInit => Inv
    BY PartsAssumption, CalloutInit DEF PartsInit
<1>2. Inv /\ [PartsNext]_partsvars => Inv'
  <2> SUFFICES ASSUME Inv, [PartsNext]_partsvars, part' = "callout"
               PROVE  CO!CalloutInv'
      OBVIOUS
  <2>1. part = "callout"
      BY DEF PartsNext, partsvars
  <2>2. [CO!Next]_(CO!vars)
      BY <2>1 DEF PartsNext, partsvars, CalloutVars, CO!vars
  <2> QED
      BY <2>1, <2>2, PartsAssumption, CalloutStep
<1>3. Inv => CalloutSafe
    BY CalloutInvSafe DEF CalloutSafe
<1> QED
    BY <1>1, <1>2, <1>3, PTL DEF PartsSpec

-----------------------------------------------------------------------------
(***************************************************************************)
(* Condition variables.  The argument for the wakeups: the LWPs that are   *)
(* up, CV!Awake, lose one only when it takes an item, when it wakes        *)
(* another, or when nobody sleeps.  That cv_signal() may look at the queue *)
(* without its lock rests on SleepInv: an LWP is moved in the queue only   *)
(* while others stay in it.                                                *)
(***************************************************************************)

LEMMA CondVarSets ==
    /\ \A S : CV!IsFiniteSet(S) <=> IsFiniteSet(S)
    /\ \A S : CV!Cardinality(S) = Cardinality(S)
<1>1. \A S : CV!IsFiniteSet(S) <=> IsFiniteSet(S)
    BY DEF CV!IsFiniteSet, IsFiniteSet
<1>2. \A S : CV!Cardinality(S) = Cardinality(S)
    BY DEF CV!Cardinality, Cardinality
<1> QED
    BY <1>1, <1>2

LEMMA CondVarInit ==
    ASSUME CV!CondVarAssumption, CV!Init
    PROVE  CV!CondVarInv
<1>1. CV!TypeOK
  <2>1. sig \in [LWP -> BOOLEAN] /\ err \in [LWP -> BOOLEAN]
      BY Zenon DEF CV!Init
  <2> QED
      BY <2>1 DEF CV!CondVarAssumption, CV!Init, CV!TypeOK
<1>2. CV!Sleepers = {}
    BY DEF CV!CondVarAssumption, CV!Init, CV!Sleepers
<1> QED
    BY <1>1, <1>2 DEF CV!CondVarAssumption, CV!Init, CV!CondVarInv,
        CV!HoldInv, CV!SleepInv, CV!TimeoutInv, CV!NoWakeupLost

\* Every step keeps the types.
LEMMA CondVarTypes ==
    ASSUME CV!CondVarAssumption, CV!CondVarInv, CV!Next
    PROVE  CV!TypeOK'
<1>1. ASSUME NEW l \in LWP, NEW w \in CV!CvWaits, CV!Get(l, w)
      PROVE  CV!TypeOK'
    BY <1>1 DEF CV!CondVarInv, CV!TypeOK, CV!Get, CV!Goto, CV!CvWaits
<1>2. ASSUME NEW l \in LWP, CV!Put(l)
      PROVE  CV!TypeOK'
    BY <1>2
    DEF CV!CondVarAssumption, CV!CondVarInv, CV!TypeOK, CV!Put, CV!Goto
<1>3. ASSUME NEW l \in LWP, CV!Take(l)
      PROVE  CV!TypeOK'
    BY <1>3
    DEF CV!CondVarAssumption, CV!CondVarInv, CV!TypeOK, CV!Take, CV!Goto,
        CV!Done
<1>4. ASSUME NEW l \in LWP, CV!CvEnter(l)
      PROVE  CV!TypeOK'
    BY <1>4
    DEF CV!CondVarAssumption, CV!CondVarInv, CV!TypeOK, CV!CvEnter, CV!Goto
<1>5. ASSUME NEW l \in LWP, CV!CvEnterExit(l)
      PROVE  CV!TypeOK'
    BY <1>5
    DEF CV!CondVarAssumption, CV!CondVarInv, CV!TypeOK, CV!CvEnterExit,
        CV!Goto
<1>6. ASSUME NEW l \in LWP, CV!BlockEarly(l)
      PROVE  CV!TypeOK'
    BY <1>6
    DEF CV!CondVarAssumption, CV!CondVarInv, CV!TypeOK, CV!BlockEarly,
        CV!SleepqRemove, CV!Catches
<1>7. ASSUME NEW l \in LWP, CV!Block(l)
      PROVE  CV!TypeOK'
    BY <1>7
    DEF CV!CondVarAssumption, CV!CondVarInv, CV!TypeOK, CV!Block, CV!Goto
<1>8. ASSUME NEW l \in LWP, CV!HaltTimeout(l)
      PROVE  CV!TypeOK'
  <2>1. err' \in [LWP -> BOOLEAN]
    <3>1. (timo[l] = "fired") \in BOOLEAN
        OBVIOUS
    <3> QED
        BY <1>8, <3>1 DEF CV!CondVarInv, CV!TypeOK, CV!HaltTimeout
  <2> QED
      BY <1>8, <2>1 DEF CV!CondVarInv, CV!TypeOK, CV!HaltTimeout, CV!Goto
<1>9. ASSUME NEW l \in LWP, CV!CheckSignal(l)
      PROVE  CV!TypeOK'
  <2>1. /\ cv_pc' = [cv_pc EXCEPT ![l] = "exit"]
        /\ UNCHANGED <<mtx, sq_mutex, cv_sleepq, moving, items, wait, timo>>
      BY <1>9 DEF CV!CheckSignal, CV!Goto
  <2>2. err' \in [LWP -> BOOLEAN] /\ sig' \in [LWP -> BOOLEAN]
      BY <1>9 DEF CV!CondVarInv, CV!TypeOK, CV!CheckSignal
  <2> QED
      BY <2>1, <2>2 DEF CV!CondVarInv, CV!TypeOK
<1>10. ASSUME NEW l \in LWP, CV!CvExit(l)
       PROVE  CV!TypeOK'
    BY <1>10
    DEF CV!CondVarAssumption, CV!CondVarInv, CV!TypeOK, CV!CvExit, CV!Goto
<1>11. ASSUME NEW l \in LWP, CV!LookEmpty(l)
       PROVE  CV!TypeOK'
    BY <1>11
    DEF CV!CondVarAssumption, CV!CondVarInv, CV!TypeOK, CV!LookEmpty, CV!Goto,
        CV!Done
<1>12. ASSUME NEW l \in LWP, CV!LookWaiters(l)
       PROVE  CV!TypeOK'
    BY <1>12
    DEF CV!CondVarAssumption, CV!CondVarInv, CV!TypeOK, CV!LookWaiters,
        CV!Goto
<1>13. ASSUME NEW l \in LWP, CV!CvWakeup(l)
       PROVE  CV!TypeOK'
    BY <1>13
    DEF CV!CondVarAssumption, CV!CondVarInv, CV!TypeOK, CV!CvWakeup, CV!Done,
        CV!Woken
<1>14. ASSUME NEW l \in LWP, CV!TimeoutFires(l)
       PROVE  CV!TypeOK'
    BY <1>14
    DEF CV!CondVarAssumption, CV!CondVarInv, CV!TypeOK, CV!TimeoutFires
<1>15. ASSUME NEW l \in LWP, CV!SleepqTimeout(l)
       PROVE  CV!TypeOK'
    BY <1>15
    DEF CV!CondVarAssumption, CV!CondVarInv, CV!TypeOK, CV!SleepqTimeout,
        CV!SleepqRemove
<1>16. ASSUME NEW l \in LWP, CV!SigPost(l)
       PROVE  CV!TypeOK'
    BY <1>16
    DEF CV!CondVarAssumption, CV!CondVarInv, CV!TypeOK, CV!SigPost,
        CV!SleepqRemove
<1>17. ASSUME NEW l \in LWP, CV!ChangePri(l)
       PROVE  CV!TypeOK'
    BY <1>17 DEF CV!CondVarAssumption, CV!CondVarInv, CV!TypeOK, CV!ChangePri
<1>18. ASSUME CV!ChangePriInsert
       PROVE  CV!TypeOK'
    BY <1>18 DEF CV!CondVarAssumption, CV!CondVarInv, CV!TypeOK, CV!HoldInv,
        CV!ChangePriInsert
<1> QED
    BY <1>1, <1>2, <1>3, <1>4, <1>5, <1>6, <1>7, <1>8, <1>9, <1>10, <1>11,
        <1>12, <1>13, <1>14, <1>15, <1>16, <1>17, <1>18
    DEF CV!Next, CV!Runs, CV!CondVarAssumption

\* The mutex and the sleep queue lock are held by whom the places of the LWPs
\* say; the scheduler holds the lock while it moves an LWP.
LEMMA CondVarHolds ==
    ASSUME CV!CondVarAssumption, CV!CondVarInv, CV!Next
    PROVE  CV!HoldInv'
<1>1. ASSUME NEW l \in LWP, NEW w \in CV!CvWaits, CV!Get(l, w)
      PROVE  CV!HoldInv'
    BY <1>1
    DEF CV!CondVarAssumption, CV!CondVarInv, CV!TypeOK, CV!HoldInv,
        CV!SleepInv, CV!Get, CV!Goto
<1>2. ASSUME NEW l \in LWP, CV!Put(l)
      PROVE  CV!HoldInv'
    BY <1>2
    DEF CV!CondVarAssumption, CV!CondVarInv, CV!TypeOK, CV!HoldInv,
        CV!SleepInv, CV!Put, CV!Goto
<1>3. ASSUME NEW l \in LWP, CV!Take(l)
      PROVE  CV!HoldInv'
    BY <1>3
    DEF CV!CondVarAssumption, CV!CondVarInv, CV!TypeOK, CV!HoldInv,
        CV!SleepInv, CV!Take, CV!Goto, CV!Done
<1>4. ASSUME NEW l \in LWP, CV!CvEnter(l)
      PROVE  CV!HoldInv'
    BY <1>4
    DEF CV!CondVarAssumption, CV!CondVarInv, CV!TypeOK, CV!HoldInv,
        CV!SleepInv, CV!CvEnter, CV!Goto
<1>5. ASSUME NEW l \in LWP, CV!CvEnterExit(l)
      PROVE  CV!HoldInv'
    BY <1>5
    DEF CV!CondVarAssumption, CV!CondVarInv, CV!TypeOK, CV!HoldInv,
        CV!SleepInv, CV!CvEnterExit, CV!Goto
<1>6. ASSUME NEW l \in LWP, CV!BlockEarly(l)
      PROVE  CV!HoldInv'
    BY <1>6
    DEF CV!CondVarAssumption, CV!CondVarInv, CV!TypeOK, CV!HoldInv,
        CV!SleepInv, CV!BlockEarly, CV!SleepqRemove, CV!Catches
<1>7. ASSUME NEW l \in LWP, CV!Block(l)
      PROVE  CV!HoldInv'
    BY <1>7
    DEF CV!CondVarAssumption, CV!CondVarInv, CV!TypeOK, CV!HoldInv,
        CV!SleepInv, CV!Block, CV!Goto
<1>8. ASSUME NEW l \in LWP, CV!HaltTimeout(l)
      PROVE  CV!HoldInv'
    BY <1>8
    DEF CV!CondVarAssumption, CV!CondVarInv, CV!TypeOK, CV!HoldInv,
        CV!SleepInv, CV!HaltTimeout, CV!Goto
<1>9. ASSUME NEW l \in LWP, CV!CheckSignal(l)
      PROVE  CV!HoldInv'
    BY <1>9
    DEF CV!CondVarAssumption, CV!CondVarInv, CV!TypeOK, CV!HoldInv,
        CV!SleepInv, CV!CheckSignal, CV!Goto
<1>10. ASSUME NEW l \in LWP, CV!CvExit(l)
       PROVE  CV!HoldInv'
    BY <1>10
    DEF CV!CondVarAssumption, CV!CondVarInv, CV!TypeOK, CV!HoldInv,
        CV!SleepInv, CV!CvExit, CV!Goto
<1>11. ASSUME NEW l \in LWP, CV!LookEmpty(l)
       PROVE  CV!HoldInv'
    BY <1>11
    DEF CV!CondVarAssumption, CV!CondVarInv, CV!TypeOK, CV!HoldInv,
        CV!SleepInv, CV!LookEmpty, CV!Goto, CV!Done
<1>12. ASSUME NEW l \in LWP, CV!LookWaiters(l)
       PROVE  CV!HoldInv'
    BY <1>12
    DEF CV!CondVarAssumption, CV!CondVarInv, CV!TypeOK, CV!HoldInv,
        CV!SleepInv, CV!LookWaiters, CV!Goto
<1>13. ASSUME NEW l \in LWP, CV!CvWakeup(l)
       PROVE  CV!HoldInv'
    BY <1>13
    DEF CV!CondVarAssumption, CV!CondVarInv, CV!TypeOK, CV!HoldInv,
        CV!SleepInv, CV!CvWakeup, CV!Done, CV!Woken
<1>14. ASSUME NEW l \in LWP, CV!TimeoutFires(l)
       PROVE  CV!HoldInv'
    BY <1>14
    DEF CV!CondVarAssumption, CV!CondVarInv, CV!TypeOK, CV!HoldInv,
        CV!SleepInv, CV!TimeoutFires
<1>15. ASSUME NEW l \in LWP, CV!SleepqTimeout(l)
       PROVE  CV!HoldInv'
    BY <1>15
    DEF CV!CondVarAssumption, CV!CondVarInv, CV!TypeOK, CV!HoldInv,
        CV!SleepInv, CV!Sleepers, CV!SleepqTimeout, CV!SleepqRemove
<1>16. ASSUME NEW l \in LWP, CV!SigPost(l)
       PROVE  CV!HoldInv'
    BY <1>16
    DEF CV!CondVarAssumption, CV!CondVarInv, CV!TypeOK, CV!HoldInv,
        CV!SleepInv, CV!SigPost, CV!SleepqRemove
<1>17. ASSUME NEW l \in LWP, CV!ChangePri(l)
       PROVE  CV!HoldInv'
    BY <1>17
    DEF CV!CondVarAssumption, CV!CondVarInv, CV!TypeOK, CV!HoldInv,
        CV!SleepInv, CV!ChangePri
<1>18. ASSUME CV!ChangePriInsert
       PROVE  CV!HoldInv'
    BY <1>18
    DEF CV!CondVarAssumption, CV!CondVarInv, CV!TypeOK, CV!HoldInv,
        CV!SleepInv, CV!ChangePriInsert
<1> QED
    BY <1>1, <1>2, <1>3, <1>4, <1>5, <1>6, <1>7, <1>8, <1>9, <1>10, <1>11,
        <1>12, <1>13, <1>14, <1>15, <1>16, <1>17, <1>18
    DEF CV!Next, CV!Runs, CV!CondVarAssumption

\* The queue has the LWPs that sleep, and never looks empty while one is moved.
LEMMA CondVarSleeps ==
    ASSUME CV!CondVarAssumption, CV!CondVarInv, CV!Next
    PROVE  CV!SleepInv'
<1>1. ASSUME NEW l \in LWP, NEW w \in CV!CvWaits, CV!Get(l, w)
      PROVE  CV!SleepInv'
    BY <1>1
    DEF CV!CondVarAssumption, CV!CondVarInv, CV!TypeOK, CV!HoldInv,
        CV!SleepInv, CV!Sleepers, CV!Get, CV!Goto
<1>2. ASSUME NEW l \in LWP, CV!Put(l)
      PROVE  CV!SleepInv'
    BY <1>2
    DEF CV!CondVarAssumption, CV!CondVarInv, CV!TypeOK, CV!HoldInv,
        CV!SleepInv, CV!Sleepers, CV!Put, CV!Goto
<1>3. ASSUME NEW l \in LWP, CV!Take(l)
      PROVE  CV!SleepInv'
    BY <1>3
    DEF CV!CondVarAssumption, CV!CondVarInv, CV!TypeOK, CV!HoldInv,
        CV!SleepInv, CV!Sleepers, CV!Take, CV!Goto, CV!Done
<1>4. ASSUME NEW l \in LWP, CV!CvEnter(l)
      PROVE  CV!SleepInv'
    BY <1>4
    DEF CV!CondVarAssumption, CV!CondVarInv, CV!TypeOK, CV!HoldInv,
        CV!SleepInv, CV!Sleepers, CV!CvEnter, CV!Goto
<1>5. ASSUME NEW l \in LWP, CV!CvEnterExit(l)
      PROVE  CV!SleepInv'
    BY <1>5
    DEF CV!CondVarAssumption, CV!CondVarInv, CV!TypeOK, CV!HoldInv,
        CV!SleepInv, CV!Sleepers, CV!CvEnterExit, CV!Goto
<1>6. ASSUME NEW l \in LWP, CV!BlockEarly(l)
      PROVE  CV!SleepInv'
    BY <1>6
    DEF CV!CondVarAssumption, CV!CondVarInv, CV!TypeOK, CV!HoldInv,
        CV!SleepInv, CV!Sleepers, CV!BlockEarly, CV!SleepqRemove, CV!Catches
<1>7. ASSUME NEW l \in LWP, CV!Block(l)
      PROVE  CV!SleepInv'
    BY <1>7
    DEF CV!CondVarAssumption, CV!CondVarInv, CV!TypeOK, CV!HoldInv,
        CV!SleepInv, CV!Sleepers, CV!Block, CV!Goto
<1>8. ASSUME NEW l \in LWP, CV!HaltTimeout(l)
      PROVE  CV!SleepInv'
    BY <1>8
    DEF CV!CondVarAssumption, CV!CondVarInv, CV!TypeOK, CV!HoldInv,
        CV!SleepInv, CV!Sleepers, CV!HaltTimeout, CV!Goto
<1>9. ASSUME NEW l \in LWP, CV!CheckSignal(l)
      PROVE  CV!SleepInv'
    BY <1>9
    DEF CV!CondVarAssumption, CV!CondVarInv, CV!TypeOK, CV!HoldInv,
        CV!SleepInv, CV!Sleepers, CV!CheckSignal, CV!Goto
<1>10. ASSUME NEW l \in LWP, CV!CvExit(l)
       PROVE  CV!SleepInv'
    BY <1>10
    DEF CV!CondVarAssumption, CV!CondVarInv, CV!TypeOK, CV!HoldInv,
        CV!SleepInv, CV!Sleepers, CV!CvExit, CV!Goto
<1>11. ASSUME NEW l \in LWP, CV!LookEmpty(l)
       PROVE  CV!SleepInv'
    BY <1>11
    DEF CV!CondVarAssumption, CV!CondVarInv, CV!TypeOK, CV!HoldInv,
        CV!SleepInv, CV!Sleepers, CV!LookEmpty, CV!Goto, CV!Done
<1>12. ASSUME NEW l \in LWP, CV!LookWaiters(l)
       PROVE  CV!SleepInv'
    BY <1>12
    DEF CV!CondVarAssumption, CV!CondVarInv, CV!TypeOK, CV!HoldInv,
        CV!SleepInv, CV!Sleepers, CV!LookWaiters, CV!Goto
<1>13. ASSUME NEW l \in LWP, CV!CvWakeup(l)
       PROVE  CV!SleepInv'
    BY <1>13
    DEF CV!CondVarAssumption, CV!CondVarInv, CV!TypeOK, CV!HoldInv,
        CV!SleepInv, CV!Sleepers, CV!CvWakeup, CV!Done, CV!Woken
<1>14. ASSUME NEW l \in LWP, CV!TimeoutFires(l)
       PROVE  CV!SleepInv'
    BY <1>14
    DEF CV!CondVarAssumption, CV!CondVarInv, CV!TypeOK, CV!HoldInv,
        CV!SleepInv, CV!Sleepers, CV!TimeoutFires
<1>15. ASSUME NEW l \in LWP, CV!SleepqTimeout(l)
       PROVE  CV!SleepInv'
    BY <1>15
    DEF CV!CondVarAssumption, CV!CondVarInv, CV!TypeOK, CV!HoldInv,
        CV!SleepInv, CV!Sleepers, CV!SleepqTimeout, CV!SleepqRemove
<1>16. ASSUME NEW l \in LWP, CV!SigPost(l)
       PROVE  CV!SleepInv'
    BY <1>16
    DEF CV!CondVarAssumption, CV!CondVarInv, CV!TypeOK, CV!HoldInv,
        CV!SleepInv, CV!Sleepers, CV!SigPost, CV!SleepqRemove
<1>17. ASSUME NEW l \in LWP, CV!ChangePri(l)
       PROVE  CV!SleepInv'
    BY <1>17
    DEF CV!CondVarAssumption, CV!CondVarInv, CV!TypeOK, CV!HoldInv,
        CV!SleepInv, CV!Sleepers, CV!ChangePri
<1>18. ASSUME CV!ChangePriInsert
       PROVE  CV!SleepInv'
    BY <1>18
    DEF CV!CondVarAssumption, CV!CondVarInv, CV!TypeOK, CV!HoldInv,
        CV!SleepInv, CV!Sleepers, CV!ChangePriInsert
<1> QED
    BY <1>1, <1>2, <1>3, <1>4, <1>5, <1>6, <1>7, <1>8, <1>9, <1>10, <1>11,
        <1>12, <1>13, <1>14, <1>15, <1>16, <1>17, <1>18
    DEF CV!Next, CV!Runs, CV!CondVarAssumption

\* callout_halt() leaves no timeout behind: not even one that runs.
LEMMA CondVarTimeouts ==
    ASSUME CV!CondVarAssumption, CV!CondVarInv, CV!Next
    PROVE  CV!TimeoutInv'
<1>1. ASSUME NEW l \in LWP, NEW w \in CV!CvWaits, CV!Get(l, w)
      PROVE  CV!TimeoutInv'
    BY <1>1
    DEF CV!CondVarInv, CV!TypeOK, CV!HoldInv, CV!SleepInv, CV!Sleepers,
        CV!TimeoutInv, CV!Timed, CV!Get, CV!Goto
<1>2. ASSUME NEW l \in LWP, CV!Put(l)
      PROVE  CV!TimeoutInv'
    BY <1>2
    DEF CV!CondVarInv, CV!TypeOK, CV!HoldInv, CV!SleepInv, CV!Sleepers,
        CV!TimeoutInv, CV!Timed, CV!Put, CV!Goto
<1>3. ASSUME NEW l \in LWP, CV!Take(l)
      PROVE  CV!TimeoutInv'
    BY <1>3
    DEF CV!CondVarInv, CV!TypeOK, CV!HoldInv, CV!SleepInv, CV!Sleepers,
        CV!TimeoutInv, CV!Timed, CV!Take, CV!Goto, CV!Done
<1>4. ASSUME NEW l \in LWP, CV!CvEnter(l)
      PROVE  CV!TimeoutInv'
    BY <1>4
    DEF CV!CondVarInv, CV!TypeOK, CV!HoldInv, CV!SleepInv, CV!Sleepers,
        CV!TimeoutInv, CV!Timed, CV!CvEnter, CV!Goto
<1>5. ASSUME NEW l \in LWP, CV!CvEnterExit(l)
      PROVE  CV!TimeoutInv'
    BY <1>5
    DEF CV!CondVarInv, CV!TypeOK, CV!HoldInv, CV!SleepInv, CV!Sleepers,
        CV!TimeoutInv, CV!Timed, CV!CvEnterExit, CV!Goto
<1>6. ASSUME NEW l \in LWP, CV!BlockEarly(l)
      PROVE  CV!TimeoutInv'
    BY <1>6
    DEF CV!CondVarInv, CV!TypeOK, CV!HoldInv, CV!SleepInv, CV!Sleepers,
        CV!TimeoutInv, CV!Timed, CV!BlockEarly, CV!SleepqRemove, CV!Catches
<1>7. ASSUME NEW l \in LWP, CV!Block(l)
      PROVE  CV!TimeoutInv'
    BY <1>7
    DEF CV!CondVarInv, CV!TypeOK, CV!HoldInv, CV!SleepInv, CV!Sleepers,
        CV!TimeoutInv, CV!Timed, CV!Block, CV!Goto
<1>8. ASSUME NEW l \in LWP, CV!HaltTimeout(l)
      PROVE  CV!TimeoutInv'
    BY <1>8
    DEF CV!CondVarInv, CV!TypeOK, CV!HoldInv, CV!SleepInv, CV!Sleepers,
        CV!TimeoutInv, CV!Timed, CV!HaltTimeout, CV!Goto
<1>9. ASSUME NEW l \in LWP, CV!CheckSignal(l)
      PROVE  CV!TimeoutInv'
    BY <1>9
    DEF CV!CondVarInv, CV!TypeOK, CV!HoldInv, CV!SleepInv, CV!Sleepers,
        CV!TimeoutInv, CV!Timed, CV!CheckSignal, CV!Goto
<1>10. ASSUME NEW l \in LWP, CV!CvExit(l)
       PROVE  CV!TimeoutInv'
    BY <1>10
    DEF CV!CondVarInv, CV!TypeOK, CV!HoldInv, CV!SleepInv, CV!Sleepers,
        CV!TimeoutInv, CV!Timed, CV!CvExit, CV!Goto
<1>11. ASSUME NEW l \in LWP, CV!LookEmpty(l)
       PROVE  CV!TimeoutInv'
    BY <1>11
    DEF CV!CondVarInv, CV!TypeOK, CV!HoldInv, CV!SleepInv, CV!Sleepers,
        CV!TimeoutInv, CV!Timed, CV!LookEmpty, CV!Goto, CV!Done
<1>12. ASSUME NEW l \in LWP, CV!LookWaiters(l)
       PROVE  CV!TimeoutInv'
    BY <1>12
    DEF CV!CondVarInv, CV!TypeOK, CV!HoldInv, CV!SleepInv, CV!Sleepers,
        CV!TimeoutInv, CV!Timed, CV!LookWaiters, CV!Goto
<1>13. ASSUME NEW l \in LWP, CV!CvWakeup(l)
       PROVE  CV!TimeoutInv'
    BY <1>13
    DEF CV!CondVarInv, CV!TypeOK, CV!HoldInv, CV!SleepInv, CV!Sleepers,
        CV!TimeoutInv, CV!Timed, CV!CvWakeup, CV!Done, CV!Woken
<1>14. ASSUME NEW l \in LWP, CV!TimeoutFires(l)
       PROVE  CV!TimeoutInv'
    BY <1>14
    DEF CV!CondVarInv, CV!TypeOK, CV!HoldInv, CV!SleepInv, CV!Sleepers,
        CV!TimeoutInv, CV!Timed, CV!TimeoutFires
<1>15. ASSUME NEW l \in LWP, CV!SleepqTimeout(l)
       PROVE  CV!TimeoutInv'
  <2>1. /\ timo' = [timo EXCEPT ![l] = "fired"]
        /\ cv_pc' = [x \in LWP |-> IF x \in {l} \cap cv_sleepq
                                   THEN "woken" ELSE cv_pc[x]]
        /\ UNCHANGED wait
      BY <1>15 DEF CV!SleepqTimeout, CV!SleepqRemove
  <2>2. cv_pc[l] \in {"asleep", "woken"} /\ CV!Timed(l)
      BY <1>15 DEF CV!CondVarInv, CV!TimeoutInv, CV!SleepqTimeout
  <2>3. cv_pc[l] = "asleep" => l \in cv_sleepq
    <3>1. sq_mutex # Scheduler
        BY <1>15 DEF CV!CondVarAssumption, CV!SleepqTimeout
    <3>2. moving = NoLWP
        BY <3>1 DEF CV!CondVarInv, CV!HoldInv
    <3> QED
        BY <3>2 DEF CV!CondVarAssumption, CV!CondVarInv, CV!SleepInv, CV!Sleepers
  <2>4. cv_pc'[l] = "woken"
      BY <2>1, <2>2, <2>3
  <2>5. \A x \in LWP : x # l => cv_pc'[x] = cv_pc[x] /\ timo'[x] = timo[x]
      BY <2>1 DEF CV!CondVarInv, CV!TypeOK
  <2> QED
      BY <2>1, <2>2, <2>4, <2>5
      DEF CV!CondVarInv, CV!TypeOK, CV!TimeoutInv, CV!Timed
<1>16. ASSUME NEW l \in LWP, CV!SigPost(l)
       PROVE  CV!TimeoutInv'
    BY <1>16
    DEF CV!CondVarInv, CV!TypeOK, CV!HoldInv, CV!SleepInv, CV!Sleepers,
        CV!TimeoutInv, CV!Timed, CV!SigPost, CV!SleepqRemove
<1>17. ASSUME NEW l \in LWP, CV!ChangePri(l)
       PROVE  CV!TimeoutInv'
    BY <1>17
    DEF CV!CondVarInv, CV!TypeOK, CV!HoldInv, CV!SleepInv, CV!Sleepers,
        CV!TimeoutInv, CV!Timed, CV!ChangePri
<1>18. ASSUME CV!ChangePriInsert
       PROVE  CV!TimeoutInv'
    BY <1>18
    DEF CV!CondVarInv, CV!TypeOK, CV!HoldInv, CV!SleepInv, CV!Sleepers,
        CV!TimeoutInv, CV!Timed, CV!ChangePriInsert
<1> QED
    BY <1>1, <1>2, <1>3, <1>4, <1>5, <1>6, <1>7, <1>8, <1>9, <1>10, <1>11,
        <1>12, <1>13, <1>14, <1>15, <1>16, <1>17, <1>18
    DEF CV!Next, CV!Runs, CV!CondVarAssumption

\* An LWP more, and an LWP less.
LEMMA CondVarCount ==
    ASSUME CV!CondVarAssumption
    PROVE  /\ CV!Cardinality(CV!Awake) \in Nat
           /\ CV!Cardinality(CV!Awake') \in Nat
           /\ CV!Awake \subseteq CV!Awake' =>
                 CV!Cardinality(CV!Awake) <= CV!Cardinality(CV!Awake')
           /\ \A l \in LWP :
                 /\ CV!Awake' = CV!Awake \ {l} =>
                       CV!Cardinality(CV!Awake) - 1 <= CV!Cardinality(CV!Awake')
                 /\ l \notin CV!Awake /\ CV!Awake' = CV!Awake \cup {l} =>
                       CV!Cardinality(CV!Awake') = CV!Cardinality(CV!Awake) + 1
           /\ \A k, l \in LWP :
                 l \notin CV!Awake /\ CV!Awake' = (CV!Awake \ {k}) \cup {l} =>
                    CV!Cardinality(CV!Awake) <= CV!Cardinality(CV!Awake')
<1>0. IsFiniteSet(LWP) /\ CV!Awake \subseteq LWP /\ CV!Awake' \subseteq LWP
    BY CondVarSets DEF CV!CondVarAssumption, CV!Awake
<1>1. IsFiniteSet(CV!Awake) /\ IsFiniteSet(CV!Awake')
    BY <1>0, FS_Subset
<1>2. Cardinality(CV!Awake) \in Nat /\ Cardinality(CV!Awake') \in Nat
    BY <1>1, FS_CardinalityType
<1>3. CV!Awake \subseteq CV!Awake' =>
         Cardinality(CV!Awake) <= Cardinality(CV!Awake')
    BY <1>1, FS_Subset
<1>4. ASSUME NEW l
      PROVE  /\ IsFiniteSet(CV!Awake \ {l})
             /\ Cardinality(CV!Awake \ {l}) \in Nat
             /\ Cardinality(CV!Awake) - 1 <= Cardinality(CV!Awake \ {l})
  <2>1. /\ IsFiniteSet(CV!Awake \ {l})
        /\ Cardinality(CV!Awake \ {l}) =
              IF l \in CV!Awake THEN Cardinality(CV!Awake) - 1
                                ELSE Cardinality(CV!Awake)
      BY <1>1, FS_RemoveElement
  <2>2. Cardinality(CV!Awake \ {l}) \in Nat
      BY <2>1, FS_CardinalityType
  <2> QED
      BY <1>2, <2>1, <2>2
<1>5. ASSUME NEW l, l \notin CV!Awake
      PROVE  Cardinality(CV!Awake \cup {l}) = Cardinality(CV!Awake) + 1
    BY <1>1, <1>5, FS_AddElement
<1>6. ASSUME NEW k, NEW l, l \notin CV!Awake
      PROVE  Cardinality(CV!Awake) <= Cardinality((CV!Awake \ {k}) \cup {l})
  <2>1. Cardinality((CV!Awake \ {k}) \cup {l}) = Cardinality(CV!Awake \ {k}) + 1
      BY <1>4, <1>6, FS_AddElement
  <2>2. /\ Cardinality(CV!Awake \ {k}) \in Nat
        /\ Cardinality(CV!Awake) - 1 <= Cardinality(CV!Awake \ {k})
      BY <1>4
  <2> QED
      BY <1>2, <2>1, <2>2
<1> QED
    BY <1>2, <1>3, <1>4, <1>5, <1>6, CondVarSets

\* No step loses a wakeup.
LEMMA CondVarWakeups ==
    ASSUME CV!CondVarAssumption, CV!CondVarInv, CV!Next
    PROVE  CV!NoWakeupLost'
<1>0. items \in Nat /\ CV!NoWakeupLost
    BY DEF CV!CondVarAssumption, CV!CondVarInv, CV!TypeOK
<1>1. ASSUME NEW l \in LWP, NEW w \in CV!CvWaits, CV!Get(l, w)
      PROVE  CV!NoWakeupLost'
  <2>1. /\ CV!Awake \subseteq CV!Awake' /\ items' = items
        /\ CV!Sleepers' # {} => CV!Sleepers # {}
      BY <1>1
      DEF CV!CondVarInv, CV!TypeOK, CV!SleepInv, CV!Sleepers, CV!Awake,
          CV!Get, CV!Goto
  <2> QED
      BY <2>1, <1>0, CondVarCount DEF CV!NoWakeupLost
<1>2. ASSUME NEW l \in LWP, CV!Put(l)
      PROVE  CV!NoWakeupLost'
  <2>1. /\ CV!Awake' = CV!Awake \cup {l} /\ items' = items + 1
        /\ CV!Sleepers' = CV!Sleepers /\ l \notin CV!Awake
      BY <1>2 DEF CV!CondVarInv, CV!TypeOK, CV!Sleepers, CV!Awake, CV!Put,
          CV!Goto
  <2>2. /\ CV!Cardinality(CV!Awake) \in Nat
        /\ CV!Cardinality(CV!Awake') = CV!Cardinality(CV!Awake) + 1
      BY <2>1, CondVarCount
  <2> QED
      BY <1>0, <2>1, <2>2 DEF CV!NoWakeupLost
<1>3. ASSUME NEW l \in LWP, CV!Take(l)
      PROVE  CV!NoWakeupLost'
  <2>1. /\ CV!Awake' = CV!Awake \ {l} /\ items' = items - 1
        /\ CV!Sleepers' = CV!Sleepers
      BY <1>3 DEF CV!CondVarInv, CV!TypeOK, CV!Sleepers, CV!Awake, CV!Take,
          CV!Goto
  <2>2. /\ CV!Cardinality(CV!Awake) \in Nat /\ CV!Cardinality(CV!Awake') \in Nat
        /\ CV!Cardinality(CV!Awake) - 1 <= CV!Cardinality(CV!Awake')
      BY <2>1, CondVarCount
  <2> QED
      BY <1>0, <2>1, <2>2 DEF CV!NoWakeupLost
<1>4. ASSUME NEW l \in LWP, CV!CvEnter(l)
      PROVE  CV!NoWakeupLost'
    BY <1>4, <1>0, CondVarCount DEF CV!NoWakeupLost, CV!CvEnter
<1>5. ASSUME NEW l \in LWP, CV!CvEnterExit(l)
      PROVE  CV!NoWakeupLost'
  <2>1. /\ CV!Awake \subseteq CV!Awake' /\ items' = items
        /\ CV!Sleepers' # {} => CV!Sleepers # {}
      BY <1>5
      DEF CV!CondVarInv, CV!TypeOK, CV!SleepInv, CV!Sleepers, CV!Awake,
          CV!CvEnterExit, CV!Goto
  <2> QED
      BY <2>1, <1>0, CondVarCount DEF CV!NoWakeupLost
<1>6. ASSUME NEW l \in LWP, CV!BlockEarly(l)
      PROVE  CV!NoWakeupLost'
  <2>1. /\ CV!Awake \subseteq CV!Awake' /\ items' = items
        /\ CV!Sleepers' # {} => CV!Sleepers # {}
      BY <1>6
      DEF CV!CondVarInv, CV!TypeOK, CV!SleepInv, CV!Sleepers, CV!Awake,
          CV!BlockEarly, CV!SleepqRemove, CV!Catches
  <2> QED
      BY <2>1, <1>0, CondVarCount DEF CV!NoWakeupLost
<1>7. ASSUME NEW l \in LWP, CV!Block(l)
      PROVE  CV!NoWakeupLost'
  <2>1. /\ CV!Awake \subseteq CV!Awake' /\ items' = items
        /\ CV!Sleepers' # {} => CV!Sleepers # {}
      BY <1>7
      DEF CV!CondVarInv, CV!TypeOK, CV!SleepInv, CV!Sleepers, CV!Awake,
          CV!Block, CV!Goto
  <2> QED
      BY <2>1, <1>0, CondVarCount DEF CV!NoWakeupLost
<1>8. ASSUME NEW l \in LWP, CV!HaltTimeout(l)
      PROVE  CV!NoWakeupLost'
  <2>1. /\ CV!Awake \subseteq CV!Awake' /\ items' = items
        /\ CV!Sleepers' # {} => CV!Sleepers # {}
      BY <1>8
      DEF CV!CondVarInv, CV!TypeOK, CV!SleepInv, CV!Sleepers, CV!Awake,
          CV!HaltTimeout, CV!Goto
  <2> QED
      BY <2>1, <1>0, CondVarCount DEF CV!NoWakeupLost
<1>9. ASSUME NEW l \in LWP, CV!CheckSignal(l)
      PROVE  CV!NoWakeupLost'
  <2>1. /\ CV!Awake \subseteq CV!Awake' /\ items' = items
        /\ CV!Sleepers' # {} => CV!Sleepers # {}
      BY <1>9
      DEF CV!CondVarInv, CV!TypeOK, CV!SleepInv, CV!Sleepers, CV!Awake,
          CV!CheckSignal, CV!Goto
  <2> QED
      BY <2>1, <1>0, CondVarCount DEF CV!NoWakeupLost
<1>10. ASSUME NEW l \in LWP, CV!CvExit(l)
       PROVE  CV!NoWakeupLost'
  <2>1. /\ CV!Awake \subseteq CV!Awake' /\ items' = items
        /\ CV!Sleepers' # {} => CV!Sleepers # {}
      BY <1>10
      DEF CV!CondVarInv, CV!TypeOK, CV!SleepInv, CV!Sleepers, CV!Awake,
          CV!CvExit, CV!Goto
  <2> QED
      BY <2>1, <1>0, CondVarCount DEF CV!NoWakeupLost
<1>11. ASSUME NEW l \in LWP, CV!LookEmpty(l)
       PROVE  CV!NoWakeupLost'
  <2>1. CV!Sleepers' = {}
      BY <1>11 DEF CV!CondVarAssumption, CV!CondVarInv, CV!SleepInv,
          CV!Sleepers, CV!LookEmpty
  <2> QED
      BY <2>1 DEF CV!NoWakeupLost
<1>12. ASSUME NEW l \in LWP, CV!LookWaiters(l)
       PROVE  CV!NoWakeupLost'
  <2>1. /\ CV!Awake \subseteq CV!Awake' /\ items' = items
        /\ CV!Sleepers' # {} => CV!Sleepers # {}
      BY <1>12
      DEF CV!CondVarInv, CV!TypeOK, CV!SleepInv, CV!Sleepers, CV!Awake,
          CV!LookWaiters, CV!Goto
  <2> QED
      BY <2>1, <1>0, CondVarCount DEF CV!NoWakeupLost
<1>13. ASSUME NEW l \in LWP, CV!CvWakeup(l)
       PROVE  CV!NoWakeupLost'
  <2>0. moving = NoLWP /\ CV!Sleepers = cv_sleepq
      BY <1>13 DEF CV!CondVarAssumption, CV!CondVarInv, CV!TypeOK, CV!HoldInv,
          CV!Sleepers, CV!CvWakeup
  <2>1. PICK S \in CV!Woken(l) :
           /\ cv_sleepq' = cv_sleepq \ S
           /\ cv_pc' = [x \in LWP |-> IF x = l THEN "idle"
                                      ELSE IF x \in S THEN "woken" ELSE cv_pc[x]]
      BY <1>13 DEF CV!CvWakeup
  <2>2. CASE S = cv_sleepq
    <3>1. CV!Sleepers' = {}
        BY <1>13, <2>0, <2>1, <2>2
        DEF CV!CondVarAssumption, CV!Sleepers, CV!CvWakeup
    <3> QED
        BY <3>1 DEF CV!NoWakeupLost
  <2>3. ASSUME NEW x \in cv_sleepq, S = {x}
        PROVE  CV!NoWakeupLost'
    <3>1. /\ x \in LWP /\ x \notin CV!Awake /\ x # l
          /\ CV!Sleepers # {} /\ items' = items
        BY <1>13, <2>0, <2>3
        DEF CV!CondVarInv, CV!SleepInv, CV!Awake, CV!CvWakeup
    <3>2. CV!Awake' = (CV!Awake \ {l}) \cup {x}
        BY <2>1, <2>3, <3>1 DEF CV!CondVarInv, CV!TypeOK, CV!Awake
    <3> QED
        BY <1>0, <3>1, <3>2, CondVarCount DEF CV!NoWakeupLost
  <2> QED
      BY <2>1, <2>2, <2>3 DEF CV!Woken
<1>14. ASSUME NEW l \in LWP, CV!TimeoutFires(l)
       PROVE  CV!NoWakeupLost'
  <2>1. /\ CV!Awake \subseteq CV!Awake' /\ items' = items
        /\ CV!Sleepers' # {} => CV!Sleepers # {}
      BY <1>14
      DEF CV!CondVarInv, CV!TypeOK, CV!SleepInv, CV!Sleepers, CV!Awake,
          CV!TimeoutFires
  <2> QED
      BY <2>1, <1>0, CondVarCount DEF CV!NoWakeupLost
<1>15. ASSUME NEW l \in LWP, CV!SleepqTimeout(l)
       PROVE  CV!NoWakeupLost'
  <2>1. /\ CV!Awake \subseteq CV!Awake' /\ items' = items
        /\ CV!Sleepers' # {} => CV!Sleepers # {}
      BY <1>15
      DEF CV!CondVarInv, CV!TypeOK, CV!SleepInv, CV!Sleepers, CV!Awake,
          CV!SleepqTimeout, CV!SleepqRemove
  <2> QED
      BY <2>1, <1>0, CondVarCount DEF CV!NoWakeupLost
<1>16. ASSUME NEW l \in LWP, CV!SigPost(l)
       PROVE  CV!NoWakeupLost'
  <2>1. /\ CV!Awake \subseteq CV!Awake' /\ items' = items
        /\ CV!Sleepers' # {} => CV!Sleepers # {}
      BY <1>16
      DEF CV!CondVarInv, CV!TypeOK, CV!SleepInv, CV!Sleepers, CV!Awake,
          CV!SigPost, CV!SleepqRemove
  <2> QED
      BY <2>1, <1>0, CondVarCount DEF CV!NoWakeupLost
<1>17. ASSUME NEW l \in LWP, CV!ChangePri(l)
       PROVE  CV!NoWakeupLost'
  <2>1. /\ CV!Awake \subseteq CV!Awake' /\ items' = items
        /\ CV!Sleepers' # {} => CV!Sleepers # {}
      BY <1>17
      DEF CV!CondVarInv, CV!TypeOK, CV!SleepInv, CV!Sleepers, CV!Awake,
          CV!ChangePri
  <2> QED
      BY <2>1, <1>0, CondVarCount DEF CV!NoWakeupLost
<1>18. ASSUME CV!ChangePriInsert
       PROVE  CV!NoWakeupLost'
  <2>1. /\ CV!Awake' = CV!Awake /\ items' = items
        /\ CV!Sleepers' # {} => CV!Sleepers # {}
      BY <1>18 DEF CV!CondVarAssumption, CV!CondVarInv, CV!TypeOK, CV!HoldInv,
          CV!SleepInv, CV!Sleepers, CV!Awake, CV!ChangePriInsert
  <2> QED
      BY <2>1, <1>0, CondVarCount DEF CV!NoWakeupLost
<1> QED
    BY <1>1, <1>2, <1>3, <1>4, <1>5, <1>6, <1>7, <1>8, <1>9, <1>10, <1>11,
        <1>12, <1>13, <1>14, <1>15, <1>16, <1>17, <1>18
    DEF CV!Next, CV!Runs, CV!CondVarAssumption

LEMMA CondVarStep ==
    ASSUME CV!CondVarAssumption, CV!CondVarInv, [CV!Next]_(CV!vars)
    PROVE  CV!CondVarInv'
<1>1. CASE CV!Next
    BY <1>1, CondVarTypes, CondVarHolds, CondVarSleeps, CondVarTimeouts,
        CondVarWakeups DEF CV!CondVarInv
<1>2. CASE UNCHANGED CV!vars
    BY <1>2 DEF CV!vars, CV!CondVarInv, CV!TypeOK, CV!HoldInv, CV!SleepInv,
        CV!Sleepers, CV!TimeoutInv, CV!Timed, CV!NoWakeupLost, CV!Awake
<1> QED
    BY <1>1, <1>2

(***************************************************************************)
(* The inductive invariant of the condition variables, of the behaviours   *)
(* of CondVar.                                                             *)
(***************************************************************************)
THEOREM CondVarInvariance ==
    ASSUME CV!CondVarAssumption
    PROVE  CV!Spec => []CV!CondVarInv
BY CondVarInit, CondVarStep, PTL DEF CV!Spec

(***************************************************************************)
(* cv_wait(), cv_timedwait() and their _sig forms, used by any number of   *)
(* LWPs for any number of items: no wakeup is lost, although it may reach  *)
(* an LWP that has timed out or been interrupted and cv_signal() looks at  *)
(* the queue without a lock; and a sleep timeout works only in the sleep   *)
(* that started it.                                                        *)
(***************************************************************************)
THEOREM CondVarIsSafe == PartsSpec => []CondVarSafe
<1> DEFINE Inv == part = "condvar" => CV!CondVarInv
<1>1. PartsInit => Inv
    BY PartsAssumption, CondVarInit DEF PartsInit
<1>2. Inv /\ [PartsNext]_partsvars => Inv'
  <2> SUFFICES ASSUME Inv, [PartsNext]_partsvars, part' = "condvar"
               PROVE  CV!CondVarInv'
      OBVIOUS
  <2>1. part = "condvar"
      BY DEF PartsNext, partsvars
  <2>2. [CV!Next]_(CV!vars)
      BY <2>1 DEF PartsNext, partsvars, CondVarVars, CV!vars
  <2> QED
      BY <2>1, <2>2, PartsAssumption, CondVarStep
<1>3. Inv => CondVarSafe
    BY DEF CondVarSafe, CV!CondVarSafe, CV!CondVarInv, CV!TimeoutInv,
        CV!TimeoutInItsSleep
<1> QED
    BY <1>1, <1>2, <1>3, PTL DEF PartsSpec

-----------------------------------------------------------------------------
(***************************************************************************)
(* The big lock.  The argument: an LWP that waits or holds stays on its    *)
(* CPU, and what an interrupt handler adds on top of it is taken away      *)
(* before the LWP goes on.                                                 *)
(***************************************************************************)

\* The fields of an LWP.
LEMMA KernelLockFields ==
    ASSUME NEW r \in KL!LwpState, NEW n \in Nat,
           NEW p \in {"new", "run", "kspin", "kswap", "mutex", "sleep", "awake",
                      "done"}
    PROVE  /\ [r EXCEPT !.pc = p, !.ops = n] \in KL!LwpState
           /\ [r EXCEPT !.pc = p, !.n = n] \in KL!LwpState
<1>1. [r EXCEPT !.pc = p, !.ops = n] \in KL!LwpState
    BY DEF KL!LwpState
<1>2. [r EXCEPT !.pc = p, !.n = n] \in KL!LwpState
    BY DEF KL!LwpState
<1> QED
    BY <1>1, <1>2

LEMMA KernelLockGoto ==
    ASSUME KL!TypeOK, NEW l \in LWP,
           NEW p \in {"new", "run", "kspin", "kswap", "mutex", "sleep", "awake",
                      "done"},
           KL!Goto(l, p)
    PROVE  lw' \in [LWP -> KL!LwpState]
<1>1. [lw[l] EXCEPT !.pc = p] \in KL!LwpState
    BY DEF KL!TypeOK, KL!LwpState
<1> QED
    BY <1>1 DEF KL!TypeOK, KL!Goto

\* The CPU takes an LWP that runs nowhere, or none.
LEMMA KernelLockSwitch ==
    ASSUME KL!TypeOK, NEW c \in CPU, NEW l, KL!Switch(c, l)
    PROVE  \E k \in LWP \cup {None} :
              /\ cur' = [cur EXCEPT ![c] = k]
              /\ k # None => /\ k # l
                             /\ lw[k].pc # "sleep" /\ lw[k].pc # "done"
                             /\ \A d \in CPU : cur[d] # k
<1>1. ASSUME NEW k \in LWP \ {l}, lw[k].pc # "sleep" /\ lw[k].pc # "done",
             \A d \in CPU : cur[d] # k, cur' = [cur EXCEPT ![c] = k]
      PROVE  \E j \in LWP \cup {None} :
                /\ cur' = [cur EXCEPT ![c] = j]
                /\ j # None => /\ j # l
                               /\ lw[j].pc # "sleep" /\ lw[j].pc # "done"
                               /\ \A d \in CPU : cur[d] # j
    BY <1>1
<1>2. CASE cur' = [cur EXCEPT ![c] = None]
    BY <1>2
<1> QED
    BY <1>1, <1>2 DEF KL!Switch

\* The big lock is taken, or taken once more.
LEMMA KernelLockTaken ==
    ASSUME KL!TypeOK, KL!CountsAgree, NEW c \in CPU, NEW l \in LWP,
           KL!KernelLockAssumption, KL!CurInv,
           cur[c] = l, NEW n \in Nat, n > 0, UNCHANGED cur,
           \/ ~kernel_lock /\ KL!Take(c, l, n)
           \/ count[c] # 0 /\ KL!Again(c, l, n)
    PROVE  KL!CountsAgree' /\ kernel_lock' \in BOOLEAN
           /\ count' \in [CPU -> Nat] /\ blcnt' \in [LWP -> Nat]
<1>1. /\ count[c] = blcnt[l] /\ l # None
      /\ kernel_lock <=> (\E d \in CPU : count[d] > 0)
    BY DEF KL!TypeOK, KL!CountsAgree, KL!KernelLockAssumption
<1>2. \A d \in CPU : d # c => cur[d] # l
    BY <1>1 DEF KL!CurInv
<1>3. \A d \in CPU : d # c => count[d] = 0
  <2>1. CASE ~kernel_lock
      BY <1>1, <2>1 DEF KL!TypeOK
  <2>2. CASE count[c] # 0
      BY <2>2 DEF KL!TypeOK, KL!CountsAgree
  <2> QED
      BY <2>1, <2>2
<1>4. PICK m \in Nat : /\ m > 0
                       /\ count' = [count EXCEPT ![c] = m]
                       /\ blcnt' = [blcnt EXCEPT ![l] = m]
  <2>1. CASE KL!Take(c, l, n)
      BY <2>1 DEF KL!Take
  <2>2. CASE KL!Again(c, l, n)
    <3>1. count[c] + n \in Nat /\ count[c] + n > 0
        BY DEF KL!TypeOK
    <3> QED
        BY <1>1, <2>2, <3>1 DEF KL!Again, KL!TypeOK
  <2> QED
      BY <2>1, <2>2
<1>5. kernel_lock' = TRUE
  <2>1. CASE KL!Take(c, l, n)
      BY <2>1 DEF KL!Take
  <2>2. CASE count[c] # 0 /\ KL!Again(c, l, n)
      BY <1>1, <2>2 DEF KL!Again, KL!TypeOK
  <2> QED
      BY <2>1, <2>2
<1>6. count' \in [CPU -> Nat] /\ blcnt' \in [LWP -> Nat]
    BY <1>4 DEF KL!TypeOK
<1>7. kernel_lock' = (\E d \in CPU : count'[d] > 0)
  <2>1. count'[c] > 0
      BY <1>4 DEF KL!TypeOK
  <2> QED
      BY <1>5, <2>1
<1>8. \A d, e \in CPU : count'[d] > 0 /\ count'[e] > 0 => d = e
    BY <1>3, <1>4 DEF KL!TypeOK
<1>9. \A d \in CPU : count'[d] = IF cur'[d] = None THEN 0 ELSE blcnt'[cur'[d]]
    BY <1>1, <1>2, <1>4 DEF KL!TypeOK, KL!CountsAgree
<1>10. \A k \in LWP : blcnt'[k] > 0 => \E d \in CPU : cur'[d] = k
    BY <1>4 DEF KL!TypeOK, KL!CountsAgree
<1> QED
    BY <1>5, <1>6, <1>7, <1>8, <1>9, <1>10 DEF KL!CountsAgree

\* Holds are released, the last one or not.
LEMMA KernelLockReleased ==
    ASSUME KL!TypeOK, KL!CountsAgree, NEW c \in CPU, NEW l \in LWP,
           KL!KernelLockAssumption, KL!CurInv, cur[c] = l,
           NEW n \in Nat, n > 0, n <= blcnt[l], UNCHANGED cur, KL!KUnlock(c, l, n)
    PROVE  KL!CountsAgree' /\ kernel_lock' \in BOOLEAN
           /\ count' \in [CPU -> Nat] /\ blcnt' \in [LWP -> Nat]
<1>1. /\ count[c] = blcnt[l] /\ l # None
      /\ kernel_lock <=> (\E d \in CPU : count[d] > 0)
    BY DEF KL!TypeOK, KL!CountsAgree, KL!KernelLockAssumption
<1>2. \A d \in CPU : d # c => cur[d] # l
    BY <1>1 DEF KL!CurInv
<1>3. \A d \in CPU : d # c => count[d] = 0
    BY <1>1 DEF KL!TypeOK, KL!CountsAgree
<1>4. PICK m \in Nat : /\ m = count[c] - n
                       /\ count' = [count EXCEPT ![c] = m]
                       /\ blcnt' = [blcnt EXCEPT ![l] = m]
                       /\ kernel_lock' <=> m > 0
  <2>1. count[c] - n \in Nat /\ kernel_lock
      BY <1>1 DEF KL!TypeOK
  <2>2. kernel_lock' <=> count[c] - n > 0
    <3>1. kernel_lock' <=> kernel_lock /\ count[c] # n
        BY Zenon DEF KL!KUnlock
    <3> QED
        BY <1>1, <2>1, <3>1 DEF KL!TypeOK
  <2> QED
      BY <1>1, <2>1, <2>2 DEF KL!KUnlock
<1>5. kernel_lock' \in BOOLEAN
    BY Zenon DEF KL!KUnlock
<1>6. count' \in [CPU -> Nat] /\ blcnt' \in [LWP -> Nat]
    BY <1>4 DEF KL!TypeOK
<1>7. kernel_lock' = (\E d \in CPU : count'[d] > 0)
  <2>1. count'[c] > 0 <=> kernel_lock'
      BY <1>4 DEF KL!TypeOK
  <2>2. \A d \in CPU : d # c => ~(count'[d] > 0)
      BY <1>3, <1>4 DEF KL!TypeOK
  <2> QED
      BY <1>5, <2>1, <2>2
<1>8. \A d, e \in CPU : count'[d] > 0 /\ count'[e] > 0 => d = e
    BY <1>3, <1>4 DEF KL!TypeOK
<1>9. \A d \in CPU : count'[d] = IF cur'[d] = None THEN 0 ELSE blcnt'[cur'[d]]
    BY <1>1, <1>2, <1>4 DEF KL!TypeOK, KL!CountsAgree
<1>10. \A k \in LWP : blcnt'[k] > 0 => \E d \in CPU : cur'[d] = k
    BY <1>4 DEF KL!TypeOK, KL!CountsAgree
<1> QED
    BY <1>5, <1>6, <1>7, <1>8, <1>9, <1>10 DEF KL!CountsAgree

\* An LWP without holds gives up the CPU.
LEMMA KernelLockSwitched ==
    ASSUME KL!TypeOK, KL!CountsAgree, KL!CurInv, KL!KernelLockAssumption,
           NEW c \in CPU, NEW l \in LWP \cup {None}, cur[c] = l, count[c] = 0,
           KL!Switch(c, l), UNCHANGED <<kernel_lock, count, blcnt>>
    PROVE  KL!CountsAgree'
<1>1. PICK k \in LWP \cup {None} :
         /\ cur' = [cur EXCEPT ![c] = k]
         /\ k # None => \A d \in CPU : cur[d] # k
    BY KernelLockSwitch
<1>2. k # None => blcnt[k] = 0
    BY <1>1 DEF KL!TypeOK, KL!CountsAgree
<1>3. \A d \in CPU : count[d] = IF cur'[d] = None THEN 0 ELSE blcnt[cur'[d]]
    BY <1>1, <1>2 DEF KL!TypeOK, KL!CountsAgree
<1>4. ASSUME NEW j \in LWP, blcnt[j] > 0
      PROVE  \E d \in CPU : cur'[d] = j
  <2>1. PICK d \in CPU : cur[d] = j
      BY <1>4 DEF KL!CountsAgree
  <2>2. d # c
      BY <1>4, <2>1 DEF KL!CountsAgree, KL!KernelLockAssumption
  <2> QED
      BY <1>1, <2>1, <2>2 DEF KL!TypeOK
<1> QED
    BY <1>3, <1>4 DEF KL!CountsAgree

\* _kernel_lock() by an LWP.
LEMMA KernelLockKLock ==
    ASSUME KL!TypeOK, KL!CountsAgree, KL!KernelLockAssumption, KL!CurInv,
           NEW c \in CPU, NEW l \in LWP, cur[c] = l, UNCHANGED cur,
           NEW n \in Nat, n > 0, NEW o \in Nat, NEW r \in {"run", "mutex"},
           KL!KLock(c, l, n, r, o)
    PROVE  /\ KL!CountsAgree' /\ kernel_lock' \in BOOLEAN
           /\ count' \in [CPU -> Nat] /\ blcnt' \in [LWP -> Nat]
           /\ klock_wanted' \in [CPU -> LWP \cup {None}]
           /\ lw' \in [LWP -> KL!LwpState]
<1>1. /\ [lw[l] EXCEPT !.pc = r, !.ops = o] \in KL!LwpState
      /\ [pc |-> "kspin", ci |-> c, owant |-> klock_wanted[c], n |-> n,
          ret |-> r, ops |-> o] \in KL!LwpState
  <2>1. lw[l] \in KL!LwpState /\ klock_wanted[c] \in LWP \cup {None}
      BY DEF KL!TypeOK
  <2>2. [lw[l] EXCEPT !.pc = r, !.ops = o] \in KL!LwpState
      BY <2>1, KernelLockFields
  <2> QED
      BY <2>1, <2>2 DEF KL!LwpState
<1>2. CASE count[c] # 0
    BY <1>1, <1>2, KernelLockTaken DEF KL!KLock, KL!Again, KL!TypeOK
<1>3. CASE count[c] = 0 /\ ~kernel_lock
    BY <1>1, <1>3, KernelLockTaken DEF KL!KLock, KL!TypeOK
<1>4. CASE count[c] = 0 /\ kernel_lock
    BY <1>1, <1>4 DEF KL!KLock, KL!TypeOK, KL!CountsAgree
<1> QED
    BY <1>2, <1>3, <1>4 DEF KL!TypeOK



\* Every step keeps the types, and the counts in agreement.
LEMMA KernelLockCounts ==
    ASSUME KL!KernelLockAssumption, KL!KernelLockInv, KL!Next
    PROVE  KL!TypeOK' /\ KL!CountsAgree'
<1>0. /\ KL!TypeOK /\ KL!CurInv /\ KL!SpinInv /\ KL!IntrInv
      /\ KL!CountsAgree /\ KL!WantedExact
    BY DEF KL!KernelLockInv, KL!KernelLockSafe
<1>1. ASSUME NEW c \in CPU, NEW l \in LWP, KL!KSpin(c, l)
      PROVE  KL!TypeOK' /\ KL!CountsAgree'
  <2>1. lw' \in [LWP -> KL!LwpState]
      BY <1>1, <1>0, KernelLockGoto DEF KL!KSpin
  <2>2. /\ cur[c] = l /\ lw[l].ci = c /\ lw[l].n > 0 /\ lw[l].n \in Nat
        /\ ~kernel_lock /\ KL!Take(lw[l].ci, l, lw[l].n)
        /\ UNCHANGED <<klock_wanted, cur, intr, klock_mtx_owner, preempts>>
    <3>1. /\ cur[c] = l /\ lw[l].pc = "kspin"
          /\ ~kernel_lock /\ KL!Take(lw[l].ci, l, lw[l].n)
          /\ UNCHANGED <<klock_wanted, cur, intr, klock_mtx_owner, preempts>>
        BY <1>1 DEF KL!KSpin, KL!On
    <3>2. /\ lw[l].ci \in CPU /\ cur[lw[l].ci] = l /\ lw[l].n > 0
        BY <1>0, <3>1 DEF KL!SpinInv, KL!LwpSpins
    <3>3. lw[l].n \in Nat
        BY <1>0 DEF KL!TypeOK, KL!LwpState
    <3> QED
        BY <1>0, <3>1, <3>2, <3>3 DEF KL!CurInv, KL!KernelLockAssumption
  <2>3. /\ KL!CountsAgree' /\ kernel_lock' \in BOOLEAN
        /\ count' \in [CPU -> Nat] /\ blcnt' \in [LWP -> Nat]
      BY <1>0, <2>2, KernelLockTaken
  <2> QED
      BY <1>0, <2>1, <2>2, <2>3 DEF KL!TypeOK
<1>2. ASSUME NEW c \in CPU, NEW l \in LWP, KL!KSwap(c, l)
      PROVE  KL!TypeOK' /\ KL!CountsAgree'
  <2>0. lw[l].owant \in LWP \cup {None} /\ lw[l].ret \in {"new", "run", "mutex"}
      BY <1>0 DEF KL!TypeOK, KL!LwpState
  <2>1. lw' \in [LWP -> KL!LwpState]
      BY <1>2, <1>0, <2>0, KernelLockGoto DEF KL!KSwap
  <2> QED
      BY <1>2, <1>0, <2>0, <2>1 DEF KL!KSwap, KL!TypeOK, KL!CountsAgree
<1>3. ASSUME NEW c \in CPU, NEW l \in LWP, KL!Lock(c, l)
      PROVE  KL!TypeOK' /\ KL!CountsAgree'
  <2>1. /\ cur[c] = l /\ lw[l].ops - 1 \in Nat
        /\ KL!KLock(c, l, 1, "run", lw[l].ops - 1)
        /\ UNCHANGED <<cur, intr, klock_mtx_owner, preempts>>
      BY <1>3, <1>0 DEF KL!Lock, KL!On, KL!TypeOK, KL!LwpState
  <2> QED
      BY <1>0, <2>1, KernelLockKLock DEF KL!TypeOK
<1>4. ASSUME NEW c \in CPU, NEW l \in LWP, KL!Unlock(c, l)
      PROVE  KL!TypeOK' /\ KL!CountsAgree'
  <2>1. /\ cur[c] = l /\ blcnt[l] \in Nat /\ 1 <= blcnt[l]
        /\ KL!KUnlock(c, l, 1)
        /\ UNCHANGED <<klock_wanted, cur, lw, intr, klock_mtx_owner, preempts>>
      BY <1>4, <1>0 DEF KL!Unlock, KL!On, KL!TypeOK, KL!KUnlock
  <2> QED
      BY <1>0, <2>1, KernelLockReleased DEF KL!TypeOK
<1>5. ASSUME NEW c \in CPU, NEW l \in LWP, KL!MutexEnter(c, l)
      PROVE  KL!TypeOK' /\ KL!CountsAgree'
  <2>1. [lw[l] EXCEPT !.pc = "mutex", !.ops = @ - 1] \in KL!LwpState
      BY <1>5, <1>0 DEF KL!MutexEnter, KL!TypeOK, KL!LwpState
  <2> QED
      BY <1>5, <1>0, <2>1
      DEF KL!MutexEnter, KL!lockVars, KL!TypeOK, KL!CountsAgree
<1>6. ASSUME NEW c \in CPU, NEW l \in LWP, KL!MutexTake(c, l)
      PROVE  KL!TypeOK' /\ KL!CountsAgree'
  <2>1. lw' \in [LWP -> KL!LwpState]
      BY <1>6, <1>0, KernelLockGoto DEF KL!MutexTake
  <2> QED
      BY <1>6, <1>0, <2>1 DEF KL!MutexTake, KL!lockVars, KL!TypeOK, KL!CountsAgree
<1>7. ASSUME NEW c \in CPU, NEW l \in LWP, KL!MutexBlock(c, l)
      PROVE  KL!TypeOK' /\ KL!CountsAgree'
  <2>1. /\ cur[c] = l /\ blcnt[l] \in Nat /\ count[c] = blcnt[l]
        /\ UNCHANGED <<klock_wanted, intr, klock_mtx_owner, preempts>>
        /\ KL!Switch(c, l)
      BY <1>7, <1>0 DEF KL!MutexBlock, KL!On, KL!TypeOK, KL!CountsAgree,
          KL!KUnlock, KL!lockVars, KL!KernelLockAssumption
  <2>2. lw' \in [LWP -> KL!LwpState]
    <3>1. [lw[l] EXCEPT !.pc = "sleep", !.n = blcnt[l]] \in KL!LwpState
      <4>1. lw[l] \in KL!LwpState
          BY <1>0 DEF KL!TypeOK
      <4> QED
          BY <2>1, <4>1, KernelLockFields
    <3> QED
        BY <1>7, <1>0, <3>1 DEF KL!MutexBlock, KL!TypeOK
  <2>3. cur' \in [CPU -> LWP \cup {None}]
      BY <1>0, <2>1, KernelLockSwitch DEF KL!TypeOK
  <2>4. CASE blcnt[l] = 0
    <3>1. UNCHANGED <<kernel_lock, count, blcnt>>
        BY <1>7, <2>4 DEF KL!MutexBlock, KL!lockVars
    <3>2. KL!CountsAgree'
        BY <1>0, <2>1, <2>4, <3>1, KernelLockSwitched
    <3> QED
        BY <1>0, <2>1, <2>2, <2>3, <3>1, <3>2 DEF KL!TypeOK
  <2>5. CASE blcnt[l] # 0
    <3>1. /\ kernel_lock' = (kernel_lock /\ count[c] # blcnt[l])
          /\ count' = [count EXCEPT ![c] = @ - blcnt[l]]
          /\ blcnt' = [blcnt EXCEPT ![l] = @ - blcnt[l]]
        BY <1>7, <2>5 DEF KL!MutexBlock, KL!KUnlock
    <3>2. kernel_lock' = FALSE
        BY <2>1, <3>1
    <3>3. /\ count' = [count EXCEPT ![c] = 0]
          /\ blcnt' = [blcnt EXCEPT ![l] = 0]
      <4>1. count[c] - blcnt[l] = 0 /\ blcnt[l] - blcnt[l] = 0
          BY <2>1
      <4> QED
          BY <1>0, <3>1, <4>1 DEF KL!TypeOK
    <3>4. kernel_lock' \in BOOLEAN
        BY <3>2, Zenon
    <3>5. count' \in [CPU -> Nat] /\ blcnt' \in [LWP -> Nat]
        BY <1>0, <3>3 DEF KL!TypeOK
    <3>6. \A d \in CPU : count'[d] = 0
      <4>1. \A d \in CPU : d # c => count[d] = 0
          BY <1>0, <2>1, <2>5 DEF KL!TypeOK, KL!CountsAgree
      <4> QED
          BY <1>0, <3>3, <4>1 DEF KL!TypeOK
    <3>7. \A k \in LWP : blcnt'[k] = 0
      <4>1. ASSUME NEW k \in LWP, k # l
            PROVE  blcnt[k] = 0
        <5>1. ASSUME blcnt[k] # 0
              PROVE  FALSE
          <6>1. PICK d \in CPU : cur[d] = k
              BY <1>0, <5>1 DEF KL!TypeOK, KL!CountsAgree
          <6>2. count[d] = blcnt[k] /\ d # c
              BY <1>0, <2>1, <4>1, <6>1 DEF KL!CountsAgree, KL!KernelLockAssumption
          <6> QED
              BY <1>0, <2>1, <2>5, <5>1, <6>2 DEF KL!TypeOK, KL!CountsAgree
        <5> QED
            BY <5>1
      <4> QED
          BY <1>0, <3>3, <4>1 DEF KL!TypeOK
    <3>8. KL!CountsAgree'
      <4>1. kernel_lock' = (\E d \in CPU : count'[d] > 0)
        <5>1. ~(\E d \in CPU : count'[d] > 0)
            BY <3>6
        <5> QED
            BY <3>2, <5>1, Zenon
      <4>2. \A d \in CPU : cur'[d] # None => cur'[d] \in LWP
          BY <2>3
      <4> QED
          BY <3>6, <3>7, <4>1, <4>2 DEF KL!CountsAgree
    <3> QED
        BY <1>0, <2>1, <2>2, <2>3, <3>4, <3>5, <3>8 DEF KL!TypeOK
  <2> QED
      BY <2>4, <2>5
<1>8. ASSUME NEW c \in CPU, NEW l \in LWP, KL!Awake(c, l)
      PROVE  KL!TypeOK' /\ KL!CountsAgree'
  <2>1. /\ cur[c] = l /\ lw[l].n \in Nat /\ lw[l].ops \in Nat
        /\ UNCHANGED <<cur, intr, klock_mtx_owner, preempts>>
      BY <1>8, <1>0 DEF KL!Awake, KL!On, KL!TypeOK, KL!LwpState
  <2>2. CASE lw[l].n = 0
    <3>1. KL!Goto(l, "mutex") /\ UNCHANGED KL!lockVars
        BY <1>8, <2>2 DEF KL!Awake
    <3>2. lw' \in [LWP -> KL!LwpState]
        BY <1>0, <3>1, KernelLockGoto
    <3> QED
        BY <1>0, <2>1, <3>1, <3>2 DEF KL!lockVars, KL!TypeOK, KL!CountsAgree
  <2>3. CASE lw[l].n # 0
    <3>1. KL!KLock(c, l, lw[l].n, "mutex", lw[l].ops) /\ lw[l].n > 0
        BY <1>8, <2>1, <2>3 DEF KL!Awake
    <3>2. /\ KL!CountsAgree' /\ kernel_lock' \in BOOLEAN
          /\ count' \in [CPU -> Nat] /\ blcnt' \in [LWP -> Nat]
          /\ klock_wanted' \in [CPU -> LWP \cup {None}]
          /\ lw' \in [LWP -> KL!LwpState]
        BY <1>0, <2>1, <3>1, KernelLockKLock
    <3> QED
        BY <1>0, <2>1, <3>2 DEF KL!TypeOK
  <2> QED
      BY <2>2, <2>3
<1>9. ASSUME NEW c \in CPU, NEW l \in LWP, KL!MutexExit(c, l)
      PROVE  KL!TypeOK' /\ KL!CountsAgree'
  <2>1. \A k \in LWP : /\ lw[k] \in KL!LwpState
                       /\ [lw[k] EXCEPT !.pc = "awake"] \in KL!LwpState
      BY <1>0 DEF KL!TypeOK, KL!LwpState
  <2> QED
      BY <1>9, <1>0, <2>1
      DEF KL!MutexExit, KL!lockVars, KL!TypeOK, KL!CountsAgree
<1>10. ASSUME NEW c \in CPU, NEW l \in LWP, KL!Finish(c, l)
       PROVE  KL!TypeOK' /\ KL!CountsAgree'
  <2>1. /\ cur[c] = l /\ count[c] = 0
        /\ KL!Switch(c, l) /\ UNCHANGED KL!lockVars
      BY <1>10, <1>0 DEF KL!Finish, KL!On, KL!TypeOK, KL!CountsAgree,
          KL!KernelLockAssumption
  <2>2. cur' \in [CPU -> LWP \cup {None}]
      BY <1>0, <2>1, KernelLockSwitch DEF KL!TypeOK
  <2>3. KL!CountsAgree'
      BY <1>0, <2>1, KernelLockSwitched DEF KL!lockVars
  <2>4. lw' \in [LWP -> KL!LwpState]
      BY <1>10, <1>0, KernelLockGoto DEF KL!Finish
  <2> QED
      BY <1>10, <1>0, <2>1, <2>2, <2>3, <2>4 DEF KL!Finish, KL!lockVars, KL!TypeOK
<1>11. ASSUME NEW c \in CPU, NEW l \in LWP, KL!Begin(c, l)
       PROVE  KL!TypeOK' /\ KL!CountsAgree'
  <2>1. lw' \in [LWP -> KL!LwpState]
      BY <1>11, <1>0, KernelLockGoto DEF KL!Begin
  <2> QED
      BY <1>11, <1>0, <2>1 DEF KL!Begin, KL!lockVars, KL!TypeOK, KL!CountsAgree
<1>12. ASSUME NEW c \in CPU, NEW l \in LWP, KL!IntrSpin(c, l)
       PROVE  KL!TypeOK' /\ KL!CountsAgree'
  <2>1. [intr[c] EXCEPT !.pc = "swap"] \in KL!IntrState
      BY <1>0 DEF KL!TypeOK, KL!IntrState
  <2>2. /\ KL!CountsAgree' /\ kernel_lock' \in BOOLEAN
        /\ count' \in [CPU -> Nat] /\ blcnt' \in [LWP -> Nat]
      BY <1>12, <1>0, KernelLockTaken DEF KL!IntrSpin
  <2> QED
      BY <1>12, <1>0, <2>1, <2>2 DEF KL!IntrSpin, KL!TypeOK
<1>13. ASSUME NEW c \in CPU, NEW l \in LWP, KL!IntrSwap(c, l)
       PROVE  KL!TypeOK' /\ KL!CountsAgree'
  <2>1. /\ intr[c].owant \in LWP \cup {None}
        /\ [intr[c] EXCEPT !.pc = "held", !.owant = None] \in KL!IntrState
      BY <1>0 DEF KL!TypeOK, KL!IntrState
  <2> QED
      BY <1>13, <1>0, <2>1 DEF KL!IntrSwap, KL!TypeOK, KL!CountsAgree
<1>14. ASSUME NEW c \in CPU, NEW l \in LWP, KL!IntrUnlock(c, l)
       PROVE  KL!TypeOK' /\ KL!CountsAgree'
  <2>1. [intr[c] EXCEPT !.pc = "none"] \in KL!IntrState
      BY <1>0 DEF KL!TypeOK, KL!IntrState
  <2>2. cur[c] = l /\ blcnt[l] \in Nat /\ 1 <= blcnt[l]
      BY <1>14, <1>0 DEF KL!IntrUnlock, KL!IntrInv, KL!TypeOK, KL!CountsAgree,
          KL!KernelLockAssumption
  <2>3. /\ KL!CountsAgree' /\ kernel_lock' \in BOOLEAN
        /\ count' \in [CPU -> Nat] /\ blcnt' \in [LWP -> Nat]
      BY <1>14, <1>0, <2>2, KernelLockReleased DEF KL!IntrUnlock
  <2> QED
      BY <1>14, <1>0, <2>1, <2>3 DEF KL!IntrUnlock, KL!KUnlock, KL!TypeOK
<1>15. ASSUME NEW c \in CPU, NEW l \in LWP, KL!IntrLock(c, l)
       PROVE  KL!TypeOK' /\ KL!CountsAgree'
  <2>1. /\ cur[c] = l /\ intr[c].left - 1 \in Nat
        /\ UNCHANGED <<cur, lw, klock_mtx_owner, preempts>>
      BY <1>15, <1>0 DEF KL!IntrLock, KL!TypeOK, KL!IntrState
  <2>2. /\ [pc |-> "held", owant |-> None, left |-> intr[c].left - 1]
               \in KL!IntrState
        /\ [pc |-> "spin", owant |-> klock_wanted[c], left |-> intr[c].left - 1]
               \in KL!IntrState
      BY <1>0, <2>1 DEF KL!TypeOK, KL!IntrState
  <2>3. CASE count[c] # 0
    <3>1. /\ KL!Again(c, l, 1)
          /\ intr' = [intr EXCEPT ![c] =
                 [pc |-> "held", owant |-> None, left |-> @.left - 1]]
        BY <1>15, <2>3 DEF KL!IntrLock
    <3>2. /\ KL!CountsAgree' /\ kernel_lock' \in BOOLEAN
          /\ count' \in [CPU -> Nat] /\ blcnt' \in [LWP -> Nat]
        BY <1>0, <2>1, <2>3, <3>1, KernelLockTaken
    <3> QED
        BY <1>0, <2>1, <2>2, <3>1, <3>2 DEF KL!Again, KL!TypeOK
  <2>4. CASE count[c] = 0 /\ ~kernel_lock
    <3>1. /\ KL!Take(c, l, 1) /\ UNCHANGED klock_wanted
          /\ intr' = [intr EXCEPT ![c] =
                 [pc |-> "held", owant |-> None, left |-> @.left - 1]]
        BY <1>15, <2>4 DEF KL!IntrLock
    <3>2. /\ KL!CountsAgree' /\ kernel_lock' \in BOOLEAN
          /\ count' \in [CPU -> Nat] /\ blcnt' \in [LWP -> Nat]
        BY <1>0, <2>1, <2>4, <3>1, KernelLockTaken
    <3> QED
        BY <1>0, <2>1, <2>2, <3>1, <3>2 DEF KL!TypeOK
  <2>5. CASE count[c] = 0 /\ kernel_lock
    <3>1. /\ klock_wanted' = [klock_wanted EXCEPT ![c] = l]
          /\ intr' = [intr EXCEPT ![c] =
                 [pc |-> "spin", owant |-> klock_wanted[c],
                  left |-> @.left - 1]]
          /\ UNCHANGED <<kernel_lock, count, blcnt>>
        BY <1>15, <2>5 DEF KL!IntrLock
    <3> QED
        BY <1>0, <2>1, <2>2, <3>1 DEF KL!TypeOK, KL!CountsAgree
  <2> QED
      BY <1>0, <2>3, <2>4, <2>5 DEF KL!TypeOK
<1>16. ASSUME NEW c \in CPU, NEW l \in LWP, KL!Preempt(c, l)
       PROVE  KL!TypeOK' /\ KL!CountsAgree'
  <2>1. /\ cur[c] = l /\ count[c] = 0
        /\ KL!Switch(c, l) /\ UNCHANGED KL!lockVars
      BY <1>16, <1>0 DEF KL!Preempt, KL!On, KL!TypeOK, KL!CountsAgree,
          KL!KernelLockAssumption
  <2>2. cur' \in [CPU -> LWP \cup {None}]
      BY <1>0, <2>1, KernelLockSwitch DEF KL!TypeOK
  <2>3. KL!CountsAgree'
      BY <1>0, <2>1, KernelLockSwitched DEF KL!lockVars
  <2> QED
      BY <1>16, <1>0, <2>1, <2>2, <2>3 DEF KL!Preempt, KL!lockVars, KL!TypeOK
<1>17. ASSUME NEW c \in CPU, KL!Dispatch(c)
       PROVE  KL!TypeOK' /\ KL!CountsAgree'
  <2>1. /\ cur[c] = None /\ count[c] = 0
        /\ KL!Switch(c, None) /\ UNCHANGED KL!lockVars
      BY <1>17, <1>0 DEF KL!Dispatch, KL!On, KL!TypeOK, KL!CountsAgree,
          KL!KernelLockAssumption
  <2>2. cur' \in [CPU -> LWP \cup {None}]
      BY <1>0, <2>1, KernelLockSwitch DEF KL!TypeOK
  <2>3. KL!CountsAgree'
      BY <1>0, <2>1, KernelLockSwitched DEF KL!lockVars
  <2> QED
      BY <1>17, <1>0, <2>1, <2>2, <2>3 DEF KL!Dispatch, KL!lockVars, KL!TypeOK
<1> QED
    BY <1>1, <1>2, <1>3, <1>4, <1>5, <1>6, <1>7, <1>8, <1>9, <1>10, <1>11,
        <1>12, <1>13, <1>14, <1>15, <1>16, <1>17
    DEF KL!Next, KL!Step

\* Another LWP takes the CPU.
LEMMA KernelLockCurSwitch ==
    ASSUME KL!TypeOK, KL!CurInv, KL!KernelLockAssumption, NEW c \in CPU,
           NEW l \in LWP \cup {None}, cur[c] = l, intr[c].pc = "none",
           KL!Switch(c, l), UNCHANGED intr,
           \A k \in LWP : k # l => lw'[k] = lw[k]
    PROVE  KL!CurInv'
<1>1. PICK k \in LWP \cup {None} :
         /\ cur' = [cur EXCEPT ![c] = k]
         /\ k # None => /\ k # l
                        /\ lw[k].pc # "sleep" /\ lw[k].pc # "done"
                        /\ \A d \in CPU : cur[d] # k
    BY KernelLockSwitch
<1>2. cur'[c] = k /\ \A d \in CPU : d # c => cur'[d] = cur[d]
    BY <1>1 DEF KL!TypeOK
<1>3. \A d, e \in CPU : cur'[d] # None /\ cur'[d] = cur'[e] => d = e
    BY <1>1, <1>2 DEF KL!CurInv
<1>4. ASSUME NEW d \in CPU
      PROVE  IF cur'[d] = None THEN intr'[d].pc = "none"
             ELSE lw'[cur'[d]].pc \notin {"sleep", "done"}
  <2>1. CASE d = c
      BY <1>1, <1>2, <2>1
  <2>2. CASE d # c
    <3>1. cur'[d] = cur[d] /\ (cur[d] # None => cur[d] \in LWP /\ cur[d] # l)
        BY <1>2, <2>2 DEF KL!TypeOK, KL!CurInv
    <3> QED
        BY <3>1 DEF KL!CurInv
  <2> QED
      BY <2>1, <2>2
<1> QED
    BY <1>3, <1>4 DEF KL!CurInv

\* An LWP runs on one CPU at most, and none that sleeps does.
LEMMA KernelLockCur ==
    ASSUME KL!KernelLockAssumption, KL!KernelLockInv, KL!Next
    PROVE  KL!CurInv'
<1>0. /\ KL!TypeOK /\ KL!CurInv /\ KL!SpinInv /\ KL!IntrInv
      /\ KL!CountsAgree /\ KL!WantedExact
    BY DEF KL!KernelLockInv, KL!KernelLockSafe
<1>1. ASSUME NEW c \in CPU, NEW l \in LWP, KL!KSpin(c, l)
      PROVE  KL!CurInv'
    BY <1>1
    DEF KL!KernelLockInv, KL!KernelLockAssumption, KL!TypeOK, KL!LwpState,
        KL!IntrState, KL!CurInv, KL!KSpin, KL!On, KL!Take, KL!Goto
<1>2. ASSUME NEW c \in CPU, NEW l \in LWP, KL!KSwap(c, l)
      PROVE  KL!CurInv'
    BY <1>2
    DEF KL!KernelLockInv, KL!KernelLockAssumption, KL!TypeOK, KL!LwpState,
        KL!IntrState, KL!CurInv, KL!KSwap, KL!On, KL!Goto
<1>3. ASSUME NEW c \in CPU, NEW l \in LWP, KL!Lock(c, l)
      PROVE  KL!CurInv'
    BY <1>3
    DEF KL!KernelLockInv, KL!KernelLockAssumption, KL!TypeOK, KL!LwpState,
        KL!IntrState, KL!CurInv, KL!Lock, KL!On, KL!KLock, KL!Again, KL!Take
<1>4. ASSUME NEW c \in CPU, NEW l \in LWP, KL!Unlock(c, l)
      PROVE  KL!CurInv'
    BY <1>4
    DEF KL!KernelLockInv, KL!KernelLockAssumption, KL!TypeOK, KL!LwpState,
        KL!IntrState, KL!CurInv, KL!Unlock, KL!On, KL!KUnlock
<1>5. ASSUME NEW c \in CPU, NEW l \in LWP, KL!MutexEnter(c, l)
      PROVE  KL!CurInv'
    BY <1>5
    DEF KL!KernelLockInv, KL!KernelLockAssumption, KL!TypeOK, KL!LwpState,
        KL!IntrState, KL!CurInv, KL!MutexEnter, KL!On, KL!lockVars
<1>6. ASSUME NEW c \in CPU, NEW l \in LWP, KL!MutexTake(c, l)
      PROVE  KL!CurInv'
    BY <1>6
    DEF KL!KernelLockInv, KL!KernelLockAssumption, KL!TypeOK, KL!LwpState,
        KL!IntrState, KL!CurInv, KL!MutexTake, KL!On, KL!Goto, KL!lockVars
<1>7. ASSUME NEW c \in CPU, NEW l \in LWP, KL!MutexBlock(c, l)
      PROVE  KL!CurInv'
  <2>1. /\ cur[c] = l /\ intr[c].pc = "none" /\ KL!Switch(c, l) /\ UNCHANGED intr
        /\ \A k \in LWP : k # l => lw'[k] = lw[k]
      BY <1>7, <1>0 DEF KL!MutexBlock, KL!On, KL!TypeOK
  <2> QED
      BY <1>0, <2>1, KernelLockCurSwitch
<1>8. ASSUME NEW c \in CPU, NEW l \in LWP, KL!Awake(c, l)
      PROVE  KL!CurInv'
    BY <1>8
    DEF KL!KernelLockInv, KL!KernelLockAssumption, KL!TypeOK, KL!LwpState,
        KL!IntrState, KL!CurInv, KL!Awake, KL!On, KL!KLock, KL!Again, KL!Take,
        KL!Goto, KL!lockVars
<1>9. ASSUME NEW c \in CPU, NEW l \in LWP, KL!MutexExit(c, l)
      PROVE  KL!CurInv'
    BY <1>9
    DEF KL!KernelLockInv, KL!KernelLockAssumption, KL!TypeOK, KL!LwpState,
        KL!IntrState, KL!CurInv, KL!MutexExit, KL!On, KL!lockVars
<1>10. ASSUME NEW c \in CPU, NEW l \in LWP, KL!Finish(c, l)
       PROVE  KL!CurInv'
  <2>1. /\ cur[c] = l /\ intr[c].pc = "none" /\ KL!Switch(c, l) /\ UNCHANGED intr
        /\ \A k \in LWP : k # l => lw'[k] = lw[k]
      BY <1>10, <1>0 DEF KL!Finish, KL!On, KL!TypeOK, KL!Goto
  <2> QED
      BY <1>0, <2>1, KernelLockCurSwitch
<1>11. ASSUME NEW c \in CPU, NEW l \in LWP, KL!Begin(c, l)
       PROVE  KL!CurInv'
    BY <1>11
    DEF KL!KernelLockInv, KL!KernelLockAssumption, KL!TypeOK, KL!LwpState,
        KL!IntrState, KL!CurInv, KL!Begin, KL!On, KL!Goto, KL!lockVars
<1>12. ASSUME NEW c \in CPU, NEW l \in LWP, KL!IntrSpin(c, l)
       PROVE  KL!CurInv'
    BY <1>12
    DEF KL!KernelLockInv, KL!KernelLockAssumption, KL!TypeOK, KL!LwpState,
        KL!IntrState, KL!CurInv, KL!IntrSpin, KL!Take
<1>13. ASSUME NEW c \in CPU, NEW l \in LWP, KL!IntrSwap(c, l)
       PROVE  KL!CurInv'
    BY <1>13
    DEF KL!KernelLockInv, KL!KernelLockAssumption, KL!TypeOK, KL!LwpState,
        KL!IntrState, KL!CurInv, KL!IntrSwap
<1>14. ASSUME NEW c \in CPU, NEW l \in LWP, KL!IntrUnlock(c, l)
       PROVE  KL!CurInv'
    BY <1>14
    DEF KL!KernelLockInv, KL!KernelLockAssumption, KL!TypeOK, KL!LwpState,
        KL!IntrState, KL!CurInv, KL!IntrUnlock, KL!KUnlock
<1>15. ASSUME NEW c \in CPU, NEW l \in LWP, KL!IntrLock(c, l)
       PROVE  KL!CurInv'
    BY <1>15
    DEF KL!KernelLockInv, KL!KernelLockAssumption, KL!TypeOK, KL!LwpState,
        KL!IntrState, KL!CurInv, KL!IntrLock, KL!Again, KL!Take
<1>16. ASSUME NEW c \in CPU, NEW l \in LWP, KL!Preempt(c, l)
       PROVE  KL!CurInv'
  <2>1. /\ cur[c] = l /\ intr[c].pc = "none" /\ KL!Switch(c, l) /\ UNCHANGED intr
        /\ \A k \in LWP : k # l => lw'[k] = lw[k]
      BY <1>16, <1>0 DEF KL!Preempt, KL!On, KL!TypeOK
  <2> QED
      BY <1>0, <2>1, KernelLockCurSwitch
<1>17. ASSUME NEW c \in CPU, KL!Dispatch(c)
       PROVE  KL!CurInv'
    BY <1>17
    DEF KL!KernelLockInv, KL!KernelLockAssumption, KL!TypeOK, KL!LwpState,
        KL!IntrState, KL!CurInv, KL!Dispatch, KL!Switch, KL!lockVars
<1> QED
    BY <1>1, <1>2, <1>3, <1>4, <1>5, <1>6, <1>7, <1>8, <1>9, <1>10, <1>11,
        <1>12, <1>13, <1>14, <1>15, <1>16, <1>17
    DEF KL!Next, KL!Step

\* _kernel_lock() begins to wait with nobody in ci_biglock_wanted.
LEMMA KernelLockWaits ==
    ASSUME KL!TypeOK, KL!CurInv, KL!SpinInv, KL!IntrInv, KL!WantedExact,
           KL!KernelLockAssumption, NEW c \in CPU, NEW l \in LWP,
           cur[c] = l, intr[c].pc = "none", ~KL!LwpSpins(l),
           NEW n \in Nat, n > 0, NEW o \in Nat, NEW r \in {"run", "mutex"},
           KL!KLock(c, l, n, r, o), UNCHANGED <<cur, intr>>
    PROVE  KL!SpinInv' /\ KL!IntrInv'
<1>1. /\ \A k \in LWP : k # l => lw'[k] = lw[k]
      /\ \A d \in CPU : d # c => count'[d] = count[d]
    BY DEF KL!TypeOK, KL!KLock, KL!Again, KL!Take
<1>2. l # None /\ \A d \in CPU : d # c => cur[d] # l
    BY DEF KL!CurInv, KL!KernelLockAssumption
<1>3. klock_wanted[c] = None
    BY <1>2 DEF KL!WantedExact, KL!LwpSpins
<1>4. \/ lw'[l].pc = r
      \/ /\ lw'[l] = [pc |-> "kspin", ci |-> c, owant |-> None, n |-> n,
                      ret |-> r, ops |-> o]
         /\ count'[c] = 0
    BY <1>3 DEF KL!TypeOK, KL!LwpState, KL!KLock
<1>5. KL!SpinInv'
  <2>1. ASSUME NEW k \in LWP, k # l, KL!LwpSpins(k)'
        PROVE  /\ lw'[k].ci \in CPU /\ cur'[lw'[k].ci] = k
               /\ lw'[k].owant = None /\ lw'[k].n > 0
               /\ lw'[k].pc = "kspin" =>
                     count'[lw'[k].ci] =
                        IF intr'[lw'[k].ci].pc \in {"swap", "held"}
                        THEN 1 ELSE 0
      BY <1>1, <2>1 DEF KL!SpinInv, KL!LwpSpins
  <2>2. ASSUME KL!LwpSpins(l)'
        PROVE  /\ lw'[l].ci \in CPU /\ cur'[lw'[l].ci] = l
               /\ lw'[l].owant = None /\ lw'[l].n > 0
               /\ lw'[l].pc = "kspin" =>
                     count'[lw'[l].ci] =
                        IF intr'[lw'[l].ci].pc \in {"swap", "held"}
                        THEN 1 ELSE 0
    <3>1. /\ lw'[l] = [pc |-> "kspin", ci |-> c, owant |-> None, n |-> n,
                       ret |-> r, ops |-> o]
          /\ count'[c] = 0
        BY <1>4, <2>2 DEF KL!LwpSpins
    <3> QED
        BY <3>1
  <2> QED
      BY <2>1, <2>2 DEF KL!SpinInv
<1>6. KL!IntrInv'
  <2>1. ASSUME NEW d \in CPU, d # c
        PROVE  cur[d] # None => KL!LwpSpins(cur[d])' = KL!LwpSpins(cur[d])
      BY <1>1, <1>2, <2>1 DEF KL!TypeOK, KL!LwpSpins
  <2>2. ASSUME NEW d \in CPU, d # c
        PROVE  /\ intr'[d].pc = "spin" => count'[d] = 0
               /\ intr'[d].pc \in {"swap", "held"} => count'[d] > 0
               /\ intr'[d].pc \in {"spin", "swap"} =>
                     intr'[d].owant =
                        IF KL!LwpSpins(cur[d])' THEN cur'[d] ELSE None
    <3>1. cur[d] = None => intr[d].pc = "none"
        BY DEF KL!CurInv
    <3> QED
        BY <1>1, <2>1, <2>2, <3>1 DEF KL!IntrInv
  <2> QED
      BY <2>2 DEF KL!IntrInv, KL!LwpSpins
<1> QED
    BY <1>5, <1>6

\* An LWP waits for the big lock on its CPU, without holds of its own.
LEMMA KernelLockSpin ==
    ASSUME KL!KernelLockAssumption, KL!KernelLockInv, KL!Next
    PROVE  KL!SpinInv'
<1>0. /\ KL!TypeOK /\ KL!CurInv /\ KL!SpinInv /\ KL!IntrInv
      /\ KL!CountsAgree /\ KL!WantedExact
    BY DEF KL!KernelLockInv, KL!KernelLockSafe
<1>1. ASSUME NEW c \in CPU, NEW l \in LWP, KL!KSpin(c, l)
      PROVE  KL!SpinInv'
    BY <1>1
    DEF KL!KernelLockInv, KL!KernelLockSafe, KL!KernelLockAssumption,
        KL!TypeOK, KL!LwpState, KL!IntrState, KL!CurInv, KL!SpinInv,
        KL!IntrInv, KL!LwpSpins, KL!CountsAgree, KL!WantedExact, KL!KSpin,
        KL!On, KL!Take, KL!Goto
<1>2. ASSUME NEW c \in CPU, NEW l \in LWP, KL!KSwap(c, l)
      PROVE  KL!SpinInv'
    BY <1>2
    DEF KL!KernelLockInv, KL!KernelLockSafe, KL!KernelLockAssumption,
        KL!TypeOK, KL!LwpState, KL!IntrState, KL!CurInv, KL!SpinInv,
        KL!IntrInv, KL!LwpSpins, KL!CountsAgree, KL!WantedExact, KL!KSwap,
        KL!On, KL!Goto
<1>3. ASSUME NEW c \in CPU, NEW l \in LWP, KL!Lock(c, l)
      PROVE  KL!SpinInv'
  <2>1. /\ cur[c] = l /\ intr[c].pc = "none" /\ ~KL!LwpSpins(l)
        /\ lw[l].ops - 1 \in Nat
      BY <1>3, <1>0 DEF KL!Lock, KL!On, KL!TypeOK, KL!LwpState, KL!LwpSpins
  <2> QED
      BY <1>3, <1>0, <2>1, KernelLockWaits DEF KL!Lock
<1>4. ASSUME NEW c \in CPU, NEW l \in LWP, KL!Unlock(c, l)
      PROVE  KL!SpinInv'
    BY <1>4
    DEF KL!KernelLockInv, KL!KernelLockSafe, KL!KernelLockAssumption,
        KL!TypeOK, KL!LwpState, KL!IntrState, KL!CurInv, KL!SpinInv,
        KL!IntrInv, KL!LwpSpins, KL!CountsAgree, KL!WantedExact, KL!Unlock,
        KL!On, KL!KUnlock
<1>5. ASSUME NEW c \in CPU, NEW l \in LWP, KL!MutexEnter(c, l)
      PROVE  KL!SpinInv'
    BY <1>5
    DEF KL!KernelLockInv, KL!KernelLockSafe, KL!KernelLockAssumption,
        KL!TypeOK, KL!LwpState, KL!IntrState, KL!CurInv, KL!SpinInv,
        KL!IntrInv, KL!LwpSpins, KL!CountsAgree, KL!WantedExact,
        KL!MutexEnter, KL!On, KL!lockVars
<1>6. ASSUME NEW c \in CPU, NEW l \in LWP, KL!MutexTake(c, l)
      PROVE  KL!SpinInv'
    BY <1>6
    DEF KL!KernelLockInv, KL!KernelLockSafe, KL!KernelLockAssumption,
        KL!TypeOK, KL!LwpState, KL!IntrState, KL!CurInv, KL!SpinInv,
        KL!IntrInv, KL!LwpSpins, KL!CountsAgree, KL!WantedExact, KL!MutexTake,
        KL!On, KL!Goto, KL!lockVars
<1>7. ASSUME NEW c \in CPU, NEW l \in LWP, KL!MutexBlock(c, l)
      PROVE  KL!SpinInv'
    BY <1>7
    DEF KL!KernelLockInv, KL!KernelLockSafe, KL!KernelLockAssumption,
        KL!TypeOK, KL!LwpState, KL!IntrState, KL!CurInv, KL!SpinInv,
        KL!IntrInv, KL!LwpSpins, KL!CountsAgree, KL!WantedExact,
        KL!MutexBlock, KL!On, KL!KUnlock, KL!lockVars, KL!Switch
<1>8. ASSUME NEW c \in CPU, NEW l \in LWP, KL!Awake(c, l)
      PROVE  KL!SpinInv'
  <2>1. /\ cur[c] = l /\ intr[c].pc = "none" /\ ~KL!LwpSpins(l)
        /\ lw[l].n \in Nat /\ lw[l].ops \in Nat
      BY <1>8, <1>0 DEF KL!Awake, KL!On, KL!TypeOK, KL!LwpState, KL!LwpSpins
  <2>2. CASE lw[l].n = 0
      BY <1>8, <1>0, <2>1, <2>2
      DEF KL!Awake, KL!Goto, KL!lockVars, KL!TypeOK, KL!LwpState, KL!SpinInv,
          KL!LwpSpins, KL!CurInv
  <2>3. CASE lw[l].n # 0
    <3>1. KL!KLock(c, l, lw[l].n, "mutex", lw[l].ops) /\ lw[l].n > 0
        BY <1>8, <2>1, <2>3 DEF KL!Awake
    <3> QED
        BY <1>8, <1>0, <2>1, <3>1, KernelLockWaits DEF KL!Awake
  <2> QED
      BY <2>2, <2>3
<1>9. ASSUME NEW c \in CPU, NEW l \in LWP, KL!MutexExit(c, l)
      PROVE  KL!SpinInv'
    BY <1>9
    DEF KL!KernelLockInv, KL!KernelLockSafe, KL!KernelLockAssumption,
        KL!TypeOK, KL!LwpState, KL!IntrState, KL!CurInv, KL!SpinInv,
        KL!IntrInv, KL!LwpSpins, KL!CountsAgree, KL!WantedExact, KL!MutexExit,
        KL!On, KL!lockVars
<1>10. ASSUME NEW c \in CPU, NEW l \in LWP, KL!Finish(c, l)
       PROVE  KL!SpinInv'
    BY <1>10
    DEF KL!KernelLockInv, KL!KernelLockSafe, KL!KernelLockAssumption,
        KL!TypeOK, KL!LwpState, KL!IntrState, KL!CurInv, KL!SpinInv,
        KL!IntrInv, KL!LwpSpins, KL!CountsAgree, KL!WantedExact, KL!Finish,
        KL!On, KL!Goto, KL!Switch, KL!lockVars
<1>11. ASSUME NEW c \in CPU, NEW l \in LWP, KL!Begin(c, l)
       PROVE  KL!SpinInv'
    BY <1>11
    DEF KL!KernelLockInv, KL!KernelLockSafe, KL!KernelLockAssumption,
        KL!TypeOK, KL!LwpState, KL!IntrState, KL!CurInv, KL!SpinInv,
        KL!IntrInv, KL!LwpSpins, KL!CountsAgree, KL!WantedExact, KL!Begin,
        KL!On, KL!Goto, KL!lockVars
<1>12. ASSUME NEW c \in CPU, NEW l \in LWP, KL!IntrSpin(c, l)
       PROVE  KL!SpinInv'
    BY <1>12
    DEF KL!KernelLockInv, KL!KernelLockSafe, KL!KernelLockAssumption,
        KL!TypeOK, KL!LwpState, KL!IntrState, KL!CurInv, KL!SpinInv,
        KL!IntrInv, KL!LwpSpins, KL!CountsAgree, KL!WantedExact, KL!IntrSpin,
        KL!Take
<1>13. ASSUME NEW c \in CPU, NEW l \in LWP, KL!IntrSwap(c, l)
       PROVE  KL!SpinInv'
    BY <1>13
    DEF KL!KernelLockInv, KL!KernelLockSafe, KL!KernelLockAssumption,
        KL!TypeOK, KL!LwpState, KL!IntrState, KL!CurInv, KL!SpinInv,
        KL!IntrInv, KL!LwpSpins, KL!CountsAgree, KL!WantedExact, KL!IntrSwap
<1>14. ASSUME NEW c \in CPU, NEW l \in LWP, KL!IntrUnlock(c, l)
       PROVE  KL!SpinInv'
    BY <1>14
    DEF KL!KernelLockInv, KL!KernelLockSafe, KL!KernelLockAssumption,
        KL!TypeOK, KL!LwpState, KL!IntrState, KL!CurInv, KL!SpinInv,
        KL!IntrInv, KL!LwpSpins, KL!CountsAgree, KL!WantedExact,
        KL!IntrUnlock, KL!KUnlock
<1>15. ASSUME NEW c \in CPU, NEW l \in LWP, KL!IntrLock(c, l)
       PROVE  KL!SpinInv'
    BY <1>15
    DEF KL!KernelLockInv, KL!KernelLockSafe, KL!KernelLockAssumption,
        KL!TypeOK, KL!LwpState, KL!IntrState, KL!CurInv, KL!SpinInv,
        KL!IntrInv, KL!LwpSpins, KL!CountsAgree, KL!WantedExact, KL!IntrLock,
        KL!Again, KL!Take
<1>16. ASSUME NEW c \in CPU, NEW l \in LWP, KL!Preempt(c, l)
       PROVE  KL!SpinInv'
    BY <1>16
    DEF KL!KernelLockInv, KL!KernelLockSafe, KL!KernelLockAssumption,
        KL!TypeOK, KL!LwpState, KL!IntrState, KL!CurInv, KL!SpinInv,
        KL!IntrInv, KL!LwpSpins, KL!CountsAgree, KL!WantedExact, KL!Preempt,
        KL!Switch, KL!lockVars
<1>17. ASSUME NEW c \in CPU, KL!Dispatch(c)
       PROVE  KL!SpinInv'
    BY <1>17
    DEF KL!KernelLockInv, KL!KernelLockSafe, KL!KernelLockAssumption,
        KL!TypeOK, KL!LwpState, KL!IntrState, KL!CurInv, KL!SpinInv,
        KL!IntrInv, KL!LwpSpins, KL!CountsAgree, KL!WantedExact, KL!Dispatch,
        KL!Switch, KL!lockVars
<1> QED
    BY <1>1, <1>2, <1>3, <1>4, <1>5, <1>6, <1>7, <1>8, <1>9, <1>10, <1>11,
        <1>12, <1>13, <1>14, <1>15, <1>16, <1>17
    DEF KL!Next, KL!Step

\* An interrupt handler waits, or holds, on top of an LWP that stays.
LEMMA KernelLockIntr ==
    ASSUME KL!KernelLockAssumption, KL!KernelLockInv, KL!Next
    PROVE  KL!IntrInv'
<1>0. /\ KL!TypeOK /\ KL!CurInv /\ KL!SpinInv /\ KL!IntrInv
      /\ KL!CountsAgree /\ KL!WantedExact
    BY DEF KL!KernelLockInv, KL!KernelLockSafe
<1>1. ASSUME NEW c \in CPU, NEW l \in LWP, KL!KSpin(c, l)
      PROVE  KL!IntrInv'
    BY <1>1
    DEF KL!KernelLockInv, KL!KernelLockSafe, KL!KernelLockAssumption,
        KL!TypeOK, KL!LwpState, KL!IntrState, KL!CurInv, KL!SpinInv,
        KL!IntrInv, KL!LwpSpins, KL!CountsAgree, KL!WantedExact, KL!KSpin,
        KL!On, KL!Take, KL!Goto
<1>2. ASSUME NEW c \in CPU, NEW l \in LWP, KL!KSwap(c, l)
      PROVE  KL!IntrInv'
    BY <1>2
    DEF KL!KernelLockInv, KL!KernelLockSafe, KL!KernelLockAssumption,
        KL!TypeOK, KL!LwpState, KL!IntrState, KL!CurInv, KL!SpinInv,
        KL!IntrInv, KL!LwpSpins, KL!CountsAgree, KL!WantedExact, KL!KSwap,
        KL!On, KL!Goto
<1>3. ASSUME NEW c \in CPU, NEW l \in LWP, KL!Lock(c, l)
      PROVE  KL!IntrInv'
  <2>1. /\ cur[c] = l /\ intr[c].pc = "none" /\ ~KL!LwpSpins(l)
        /\ lw[l].ops - 1 \in Nat
      BY <1>3, <1>0 DEF KL!Lock, KL!On, KL!TypeOK, KL!LwpState, KL!LwpSpins
  <2> QED
      BY <1>3, <1>0, <2>1, KernelLockWaits DEF KL!Lock
<1>4. ASSUME NEW c \in CPU, NEW l \in LWP, KL!Unlock(c, l)
      PROVE  KL!IntrInv'
    BY <1>4
    DEF KL!KernelLockInv, KL!KernelLockSafe, KL!KernelLockAssumption,
        KL!TypeOK, KL!LwpState, KL!IntrState, KL!CurInv, KL!SpinInv,
        KL!IntrInv, KL!LwpSpins, KL!CountsAgree, KL!WantedExact, KL!Unlock,
        KL!On, KL!KUnlock
<1>5. ASSUME NEW c \in CPU, NEW l \in LWP, KL!MutexEnter(c, l)
      PROVE  KL!IntrInv'
    BY <1>5
    DEF KL!KernelLockInv, KL!KernelLockSafe, KL!KernelLockAssumption,
        KL!TypeOK, KL!LwpState, KL!IntrState, KL!CurInv, KL!SpinInv,
        KL!IntrInv, KL!LwpSpins, KL!CountsAgree, KL!WantedExact,
        KL!MutexEnter, KL!On, KL!lockVars
<1>6. ASSUME NEW c \in CPU, NEW l \in LWP, KL!MutexTake(c, l)
      PROVE  KL!IntrInv'
    BY <1>6
    DEF KL!KernelLockInv, KL!KernelLockSafe, KL!KernelLockAssumption,
        KL!TypeOK, KL!LwpState, KL!IntrState, KL!CurInv, KL!SpinInv,
        KL!IntrInv, KL!LwpSpins, KL!CountsAgree, KL!WantedExact, KL!MutexTake,
        KL!On, KL!Goto, KL!lockVars
<1>7. ASSUME NEW c \in CPU, NEW l \in LWP, KL!MutexBlock(c, l)
      PROVE  KL!IntrInv'
  <2>1. /\ intr[c].pc = "none" /\ UNCHANGED intr
        /\ \A k \in LWP : k # l => lw'[k] = lw[k]
        /\ \A d \in CPU : d # c => count'[d] = count[d]
        /\ \A d \in CPU : d # c => cur'[d] = cur[d] /\ cur[d] # l
      BY <1>7, <1>0 DEF KL!MutexBlock, KL!On, KL!KUnlock, KL!Switch,
          KL!lockVars, KL!TypeOK, KL!CurInv, KL!KernelLockAssumption
  <2>2. \A d \in CPU : d # c /\ intr[d].pc # "none" => cur[d] \in LWP
      BY <1>0 DEF KL!TypeOK, KL!CurInv
  <2> QED
      BY <1>0, <2>1, <2>2 DEF KL!IntrInv, KL!LwpSpins
<1>8. ASSUME NEW c \in CPU, NEW l \in LWP, KL!Awake(c, l)
      PROVE  KL!IntrInv'
  <2>1. /\ cur[c] = l /\ intr[c].pc = "none" /\ ~KL!LwpSpins(l)
        /\ lw[l].n \in Nat /\ lw[l].ops \in Nat
      BY <1>8, <1>0 DEF KL!Awake, KL!On, KL!TypeOK, KL!LwpState, KL!LwpSpins
  <2>2. CASE lw[l].n = 0
      BY <1>8, <1>0, <2>1, <2>2
      DEF KL!Awake, KL!Goto, KL!lockVars, KL!TypeOK, KL!LwpState, KL!IntrInv,
          KL!LwpSpins, KL!CurInv
  <2>3. CASE lw[l].n # 0
    <3>1. KL!KLock(c, l, lw[l].n, "mutex", lw[l].ops) /\ lw[l].n > 0
        BY <1>8, <2>1, <2>3 DEF KL!Awake
    <3> QED
        BY <1>8, <1>0, <2>1, <3>1, KernelLockWaits DEF KL!Awake
  <2> QED
      BY <2>2, <2>3
<1>9. ASSUME NEW c \in CPU, NEW l \in LWP, KL!MutexExit(c, l)
      PROVE  KL!IntrInv'
    BY <1>9
    DEF KL!KernelLockInv, KL!KernelLockSafe, KL!KernelLockAssumption,
        KL!TypeOK, KL!LwpState, KL!IntrState, KL!CurInv, KL!SpinInv,
        KL!IntrInv, KL!LwpSpins, KL!CountsAgree, KL!WantedExact, KL!MutexExit,
        KL!On, KL!lockVars
<1>10. ASSUME NEW c \in CPU, NEW l \in LWP, KL!Finish(c, l)
       PROVE  KL!IntrInv'
  <2>1. /\ intr[c].pc = "none" /\ UNCHANGED <<intr, count>>
        /\ \A k \in LWP : k # l => lw'[k] = lw[k]
        /\ \A d \in CPU : d # c => cur'[d] = cur[d] /\ cur[d] # l
      BY <1>10, <1>0 DEF KL!Finish, KL!On, KL!Goto, KL!Switch, KL!lockVars,
          KL!TypeOK, KL!CurInv, KL!KernelLockAssumption
  <2>2. \A d \in CPU : d # c /\ intr[d].pc # "none" => cur[d] \in LWP
      BY <1>0 DEF KL!TypeOK, KL!CurInv
  <2> QED
      BY <1>0, <2>1, <2>2 DEF KL!IntrInv, KL!LwpSpins
<1>11. ASSUME NEW c \in CPU, NEW l \in LWP, KL!Begin(c, l)
       PROVE  KL!IntrInv'
    BY <1>11
    DEF KL!KernelLockInv, KL!KernelLockSafe, KL!KernelLockAssumption,
        KL!TypeOK, KL!LwpState, KL!IntrState, KL!CurInv, KL!SpinInv,
        KL!IntrInv, KL!LwpSpins, KL!CountsAgree, KL!WantedExact, KL!Begin,
        KL!On, KL!Goto, KL!lockVars
<1>12. ASSUME NEW c \in CPU, NEW l \in LWP, KL!IntrSpin(c, l)
       PROVE  KL!IntrInv'
    BY <1>12
    DEF KL!KernelLockInv, KL!KernelLockSafe, KL!KernelLockAssumption,
        KL!TypeOK, KL!LwpState, KL!IntrState, KL!CurInv, KL!SpinInv,
        KL!IntrInv, KL!LwpSpins, KL!CountsAgree, KL!WantedExact, KL!IntrSpin,
        KL!Take
<1>13. ASSUME NEW c \in CPU, NEW l \in LWP, KL!IntrSwap(c, l)
       PROVE  KL!IntrInv'
    BY <1>13
    DEF KL!KernelLockInv, KL!KernelLockSafe, KL!KernelLockAssumption,
        KL!TypeOK, KL!LwpState, KL!IntrState, KL!CurInv, KL!SpinInv,
        KL!IntrInv, KL!LwpSpins, KL!CountsAgree, KL!WantedExact, KL!IntrSwap
<1>14. ASSUME NEW c \in CPU, NEW l \in LWP, KL!IntrUnlock(c, l)
       PROVE  KL!IntrInv'
    BY <1>14
    DEF KL!KernelLockInv, KL!KernelLockSafe, KL!KernelLockAssumption,
        KL!TypeOK, KL!LwpState, KL!IntrState, KL!CurInv, KL!SpinInv,
        KL!IntrInv, KL!LwpSpins, KL!CountsAgree, KL!WantedExact,
        KL!IntrUnlock, KL!KUnlock
<1>15. ASSUME NEW c \in CPU, NEW l \in LWP, KL!IntrLock(c, l)
       PROVE  KL!IntrInv'
    BY <1>15
    DEF KL!KernelLockInv, KL!KernelLockSafe, KL!KernelLockAssumption,
        KL!TypeOK, KL!LwpState, KL!IntrState, KL!CurInv, KL!SpinInv,
        KL!IntrInv, KL!LwpSpins, KL!CountsAgree, KL!WantedExact, KL!IntrLock,
        KL!Again, KL!Take
<1>16. ASSUME NEW c \in CPU, NEW l \in LWP, KL!Preempt(c, l)
       PROVE  KL!IntrInv'
    BY <1>16
    DEF KL!KernelLockInv, KL!KernelLockSafe, KL!KernelLockAssumption,
        KL!TypeOK, KL!LwpState, KL!IntrState, KL!CurInv, KL!SpinInv,
        KL!IntrInv, KL!LwpSpins, KL!CountsAgree, KL!WantedExact, KL!Preempt,
        KL!Switch, KL!lockVars
<1>17. ASSUME NEW c \in CPU, KL!Dispatch(c)
       PROVE  KL!IntrInv'
    BY <1>17
    DEF KL!KernelLockInv, KL!KernelLockSafe, KL!KernelLockAssumption,
        KL!TypeOK, KL!LwpState, KL!IntrState, KL!CurInv, KL!SpinInv,
        KL!IntrInv, KL!LwpSpins, KL!CountsAgree, KL!WantedExact, KL!Dispatch,
        KL!Switch, KL!lockVars
<1> QED
    BY <1>1, <1>2, <1>3, <1>4, <1>5, <1>6, <1>7, <1>8, <1>9, <1>10, <1>11,
        <1>12, <1>13, <1>14, <1>15, <1>16, <1>17
    DEF KL!Next, KL!Step

\* ci_biglock_wanted is set and put back.
LEMMA KernelLockWanted ==
    ASSUME KL!KernelLockAssumption, KL!KernelLockInv, KL!Next
    PROVE  KL!WantedExact'
<1>0. /\ KL!TypeOK /\ KL!CurInv /\ KL!SpinInv /\ KL!IntrInv
      /\ KL!CountsAgree /\ KL!WantedExact
    BY DEF KL!KernelLockInv, KL!KernelLockSafe
<1>1. ASSUME NEW c \in CPU, NEW l \in LWP, KL!KSpin(c, l)
      PROVE  KL!WantedExact'
    BY <1>1
    DEF KL!KernelLockInv, KL!KernelLockSafe, KL!KernelLockAssumption,
        KL!TypeOK, KL!LwpState, KL!IntrState, KL!CurInv, KL!SpinInv,
        KL!IntrInv, KL!LwpSpins, KL!CountsAgree, KL!WantedExact, KL!KSpin,
        KL!On, KL!Take, KL!Goto
<1>2. ASSUME NEW c \in CPU, NEW l \in LWP, KL!KSwap(c, l)
      PROVE  KL!WantedExact'
    BY <1>2
    DEF KL!KernelLockInv, KL!KernelLockSafe, KL!KernelLockAssumption,
        KL!TypeOK, KL!LwpState, KL!IntrState, KL!CurInv, KL!SpinInv,
        KL!IntrInv, KL!LwpSpins, KL!CountsAgree, KL!WantedExact, KL!KSwap,
        KL!On, KL!Goto
<1>3. ASSUME NEW c \in CPU, NEW l \in LWP, KL!Lock(c, l)
      PROVE  KL!WantedExact'
    BY <1>3
    DEF KL!KernelLockInv, KL!KernelLockSafe, KL!KernelLockAssumption,
        KL!TypeOK, KL!LwpState, KL!IntrState, KL!CurInv, KL!SpinInv,
        KL!IntrInv, KL!LwpSpins, KL!CountsAgree, KL!WantedExact, KL!Lock,
        KL!On, KL!KLock, KL!Again, KL!Take
<1>4. ASSUME NEW c \in CPU, NEW l \in LWP, KL!Unlock(c, l)
      PROVE  KL!WantedExact'
    BY <1>4
    DEF KL!KernelLockInv, KL!KernelLockSafe, KL!KernelLockAssumption,
        KL!TypeOK, KL!LwpState, KL!IntrState, KL!CurInv, KL!SpinInv,
        KL!IntrInv, KL!LwpSpins, KL!CountsAgree, KL!WantedExact, KL!Unlock,
        KL!On, KL!KUnlock
<1>5. ASSUME NEW c \in CPU, NEW l \in LWP, KL!MutexEnter(c, l)
      PROVE  KL!WantedExact'
    BY <1>5
    DEF KL!KernelLockInv, KL!KernelLockSafe, KL!KernelLockAssumption,
        KL!TypeOK, KL!LwpState, KL!IntrState, KL!CurInv, KL!SpinInv,
        KL!IntrInv, KL!LwpSpins, KL!CountsAgree, KL!WantedExact,
        KL!MutexEnter, KL!On, KL!lockVars
<1>6. ASSUME NEW c \in CPU, NEW l \in LWP, KL!MutexTake(c, l)
      PROVE  KL!WantedExact'
    BY <1>6
    DEF KL!KernelLockInv, KL!KernelLockSafe, KL!KernelLockAssumption,
        KL!TypeOK, KL!LwpState, KL!IntrState, KL!CurInv, KL!SpinInv,
        KL!IntrInv, KL!LwpSpins, KL!CountsAgree, KL!WantedExact, KL!MutexTake,
        KL!On, KL!Goto, KL!lockVars
<1>7. ASSUME NEW c \in CPU, NEW l \in LWP, KL!MutexBlock(c, l)
      PROVE  KL!WantedExact'
    BY <1>7
    DEF KL!KernelLockInv, KL!KernelLockSafe, KL!KernelLockAssumption,
        KL!TypeOK, KL!LwpState, KL!IntrState, KL!CurInv, KL!SpinInv,
        KL!IntrInv, KL!LwpSpins, KL!CountsAgree, KL!WantedExact,
        KL!MutexBlock, KL!On, KL!KUnlock, KL!lockVars, KL!Switch
<1>8. ASSUME NEW c \in CPU, NEW l \in LWP, KL!Awake(c, l)
      PROVE  KL!WantedExact'
    BY <1>8
    DEF KL!KernelLockInv, KL!KernelLockSafe, KL!KernelLockAssumption,
        KL!TypeOK, KL!LwpState, KL!IntrState, KL!CurInv, KL!SpinInv,
        KL!IntrInv, KL!LwpSpins, KL!CountsAgree, KL!WantedExact, KL!Awake,
        KL!On, KL!KLock, KL!Again, KL!Take, KL!Goto, KL!lockVars
<1>9. ASSUME NEW c \in CPU, NEW l \in LWP, KL!MutexExit(c, l)
      PROVE  KL!WantedExact'
    BY <1>9
    DEF KL!KernelLockInv, KL!KernelLockSafe, KL!KernelLockAssumption,
        KL!TypeOK, KL!LwpState, KL!IntrState, KL!CurInv, KL!SpinInv,
        KL!IntrInv, KL!LwpSpins, KL!CountsAgree, KL!WantedExact, KL!MutexExit,
        KL!On, KL!lockVars
<1>10. ASSUME NEW c \in CPU, NEW l \in LWP, KL!Finish(c, l)
       PROVE  KL!WantedExact'
    BY <1>10
    DEF KL!KernelLockInv, KL!KernelLockSafe, KL!KernelLockAssumption,
        KL!TypeOK, KL!LwpState, KL!IntrState, KL!CurInv, KL!SpinInv,
        KL!IntrInv, KL!LwpSpins, KL!CountsAgree, KL!WantedExact, KL!Finish,
        KL!On, KL!Goto, KL!Switch, KL!lockVars
<1>11. ASSUME NEW c \in CPU, NEW l \in LWP, KL!Begin(c, l)
       PROVE  KL!WantedExact'
    BY <1>11
    DEF KL!KernelLockInv, KL!KernelLockSafe, KL!KernelLockAssumption,
        KL!TypeOK, KL!LwpState, KL!IntrState, KL!CurInv, KL!SpinInv,
        KL!IntrInv, KL!LwpSpins, KL!CountsAgree, KL!WantedExact, KL!Begin,
        KL!On, KL!Goto, KL!lockVars
<1>12. ASSUME NEW c \in CPU, NEW l \in LWP, KL!IntrSpin(c, l)
       PROVE  KL!WantedExact'
    BY <1>12
    DEF KL!KernelLockInv, KL!KernelLockSafe, KL!KernelLockAssumption,
        KL!TypeOK, KL!LwpState, KL!IntrState, KL!CurInv, KL!SpinInv,
        KL!IntrInv, KL!LwpSpins, KL!CountsAgree, KL!WantedExact, KL!IntrSpin,
        KL!Take
<1>13. ASSUME NEW c \in CPU, NEW l \in LWP, KL!IntrSwap(c, l)
       PROVE  KL!WantedExact'
    BY <1>13
    DEF KL!KernelLockInv, KL!KernelLockSafe, KL!KernelLockAssumption,
        KL!TypeOK, KL!LwpState, KL!IntrState, KL!CurInv, KL!SpinInv,
        KL!IntrInv, KL!LwpSpins, KL!CountsAgree, KL!WantedExact, KL!IntrSwap
<1>14. ASSUME NEW c \in CPU, NEW l \in LWP, KL!IntrUnlock(c, l)
       PROVE  KL!WantedExact'
    BY <1>14
    DEF KL!KernelLockInv, KL!KernelLockSafe, KL!KernelLockAssumption,
        KL!TypeOK, KL!LwpState, KL!IntrState, KL!CurInv, KL!SpinInv,
        KL!IntrInv, KL!LwpSpins, KL!CountsAgree, KL!WantedExact,
        KL!IntrUnlock, KL!KUnlock
<1>15. ASSUME NEW c \in CPU, NEW l \in LWP, KL!IntrLock(c, l)
       PROVE  KL!WantedExact'
    BY <1>15
    DEF KL!KernelLockInv, KL!KernelLockSafe, KL!KernelLockAssumption,
        KL!TypeOK, KL!LwpState, KL!IntrState, KL!CurInv, KL!SpinInv,
        KL!IntrInv, KL!LwpSpins, KL!CountsAgree, KL!WantedExact, KL!IntrLock,
        KL!Again, KL!Take
<1>16. ASSUME NEW c \in CPU, NEW l \in LWP, KL!Preempt(c, l)
       PROVE  KL!WantedExact'
    BY <1>16
    DEF KL!KernelLockInv, KL!KernelLockSafe, KL!KernelLockAssumption,
        KL!TypeOK, KL!LwpState, KL!IntrState, KL!CurInv, KL!SpinInv,
        KL!IntrInv, KL!LwpSpins, KL!CountsAgree, KL!WantedExact, KL!Preempt,
        KL!Switch, KL!lockVars
<1>17. ASSUME NEW c \in CPU, KL!Dispatch(c)
       PROVE  KL!WantedExact'
    BY <1>17
    DEF KL!KernelLockInv, KL!KernelLockSafe, KL!KernelLockAssumption,
        KL!TypeOK, KL!LwpState, KL!IntrState, KL!CurInv, KL!SpinInv,
        KL!IntrInv, KL!LwpSpins, KL!CountsAgree, KL!WantedExact, KL!Dispatch,
        KL!Switch, KL!lockVars
<1> QED
    BY <1>1, <1>2, <1>3, <1>4, <1>5, <1>6, <1>7, <1>8, <1>9, <1>10, <1>11,
        <1>12, <1>13, <1>14, <1>15, <1>16, <1>17
    DEF KL!Next, KL!Step

LEMMA KernelLockInit ==
    ASSUME KL!KernelLockAssumption, KL!Init
    PROVE  KL!KernelLockInv
<1>1. KL!TypeOK
  <2>1. kernel_lock \in BOOLEAN
      BY Zenon DEF KL!Init
  <2>2. KL!Fresh \in KL!LwpState
      BY DEF KL!KernelLockAssumption, KL!Fresh, KL!LwpState
  <2>3. [pc |-> "none", owant |-> None, left |-> MaxIntr] \in KL!IntrState
      BY DEF KL!KernelLockAssumption, KL!IntrState
  <2> QED
      BY <2>1, <2>2, <2>3 DEF KL!Init, KL!TypeOK
<1>2. KL!CountsAgree
  <2>1. ~(\E c \in CPU : count[c] > 0) /\ kernel_lock = FALSE
      BY DEF KL!Init
  <2>2. kernel_lock = (\E c \in CPU : count[c] > 0)
      BY <2>1, Zenon
  <2> QED
      BY <2>2 DEF KL!Init, KL!CountsAgree
<1>3. KL!CurInv /\ KL!SpinInv /\ KL!IntrInv /\ KL!WantedExact
    BY DEF KL!Init, KL!Fresh, KL!CurInv, KL!SpinInv, KL!LwpSpins, KL!IntrInv,
        KL!WantedExact
<1> QED
    BY <1>1, <1>2, <1>3 DEF KL!KernelLockInv, KL!KernelLockSafe

LEMMA KernelLockStep ==
    ASSUME KL!KernelLockAssumption, KL!KernelLockInv, [KL!Next]_(KL!vars)
    PROVE  KL!KernelLockInv'
<1>1. CASE KL!Next
    BY <1>1, KernelLockCounts, KernelLockCur, KernelLockSpin, KernelLockIntr,
        KernelLockWanted DEF KL!KernelLockInv, KL!KernelLockSafe
<1>2. CASE UNCHANGED KL!vars
  <2> USE <1>2 DEF KL!vars, KL!KernelLockInv, KL!KernelLockSafe
  <2>1. KL!TypeOK'
      BY DEF KL!TypeOK
  <2>2. KL!CurInv' /\ KL!SpinInv'
      BY DEF KL!CurInv, KL!SpinInv, KL!LwpSpins
  <2>3. KL!IntrInv'
      BY DEF KL!IntrInv, KL!LwpSpins
  <2>4. KL!CountsAgree' /\ KL!WantedExact'
      BY DEF KL!CountsAgree, KL!WantedExact, KL!LwpSpins
  <2> QED
      BY <2>1, <2>2, <2>3, <2>4
<1> QED
    BY <1>1, <1>2

(***************************************************************************)
(* The inductive invariant of the big lock, of the behaviours of           *)
(* KernelLock.                                                             *)
(***************************************************************************)
THEOREM KernelLockInvariance ==
    ASSUME KL!KernelLockAssumption
    PROVE  KL!Spec => []KL!KernelLockInv
BY KernelLockInit, KernelLockStep, PTL DEF KL!Spec

(***************************************************************************)
(* _kernel_lock(), with any number of CPUs and LWPs: one CPU at most holds *)
(* the big lock, on behalf of the LWP that runs there; the CPU's and the   *)
(* LWP's counts agree through recursion, interrupts, sleeps and            *)
(* preemption; and ci_biglock_wanted names an LWP exactly while it, or an  *)
(* interrupt handler on top of it, waits on that CPU.                      *)
(***************************************************************************)
THEOREM KernelLockIsSafe == PartsSpec => []KernelLockSafe
<1> DEFINE Inv == part = "kernel lock" => KL!KernelLockInv
<1>1. PartsInit => Inv
    BY PartsAssumption, KernelLockInit DEF PartsInit
<1>2. Inv /\ [PartsNext]_partsvars => Inv'
  <2> SUFFICES ASSUME Inv, [PartsNext]_partsvars, part' = "kernel lock"
               PROVE  KL!KernelLockInv'
      OBVIOUS
  <2>1. part = "kernel lock"
      BY DEF PartsNext, partsvars
  <2>2. [KL!Next]_(KL!vars)
      BY <2>1 DEF PartsNext, partsvars, KernelLockVars, KL!vars
  <2> QED
      BY <2>1, <2>2, PartsAssumption, KernelLockStep
<1>3. Inv => KernelLockSafe
    BY DEF KernelLockSafe, KL!KernelLockInv
<1> QED
    BY <1>1, <1>2, <1>3, PTL DEF PartsSpec

-----------------------------------------------------------------------------
(***************************************************************************)
(* RUN_ONCE().  The argument: the test and the assignment of o_status are  *)
(* made under oncemtx, so that one caller runs the function.               *)
(***************************************************************************)

\* Before the first call of RUN_ONCE() no function has been called.
LEMMA OnceInit ==
    ASSUME ON!OnceAssumption, ON!Init
    PROVE  ON!OnceInv
BY DEF ON!OnceAssumption, ON!Init, ON!OnceInv, ON!TypeOK

\* One step per action: the type part first, then the rest for the LWP that
\* makes the step and the others.
LEMMA OnceStep ==
    ASSUME ON!OnceAssumption, ON!OnceInv, [ON!Next]_(ON!vars)
    PROVE  ON!OnceInv'
<1> USE DEF ON!OnceAssumption, ON!OnceInv, ON!TypeOK
<1>1. ASSUME NEW l \in LWP, NEW o \in Control, ON!RunOnce(l, o)
      PROVE  ON!OnceInv'
    BY <1>1 DEF ON!RunOnce, ON!Goto, ON!FastPath
<1>2. ASSUME NEW l \in LWP, ON!First(l)
      PROVE  ON!OnceInv'
    BY <1>2 DEF ON!First, ON!Goto
<1>3. ASSUME NEW l \in LWP, ON!FnReturns(l)
      PROVE  ON!OnceInv'
    BY <1>3 DEF ON!FnReturns, ON!Goto
<1>4. ASSUME NEW l \in LWP, ON!Finish(l)
      PROVE  ON!OnceInv'
    BY <1>4 DEF ON!Finish
<1>5. ASSUME NEW l \in LWP, ON!Wait(l)
      PROVE  ON!OnceInv'
    BY <1>5 DEF ON!Wait, ON!Goto
<1>6. ASSUME NEW l \in LWP, ON!WaitOver(l)
      PROVE  ON!OnceInv'
    BY <1>6 DEF ON!WaitOver, ON!Goto
<1>7. ASSUME NEW l \in LWP, ON!Return(l)
      PROVE  ON!OnceInv'
    BY <1>7 DEF ON!Return, ON!Goto
<1>8. CASE UNCHANGED ON!vars
    BY <1>8 DEF ON!vars
<1> QED
    BY <1>1, <1>2, <1>3, <1>4, <1>5, <1>6, <1>7, <1>8 DEF ON!Next, ON!Runs

(***************************************************************************)
(* OnceInv is an invariant: whoever runs a function is the only one, and   *)
(* o_status and o_error say how far it has come.                           *)
(***************************************************************************)
THEOREM OnceInvariance ==
    ASSUME ON!OnceAssumption
    PROVE  ON!Spec => []ON!OnceInv
BY OnceInit, OnceStep, PTL DEF ON!Spec

(***************************************************************************)
(* _run_once() calls a function once, however many callers race by the     *)
(* fast path and under oncemtx, and every caller returns with what it      *)
(* returned.                                                               *)
(***************************************************************************)
THEOREM CalledExactlyOnce == PartsSpec => []OnceSafe
<1> DEFINE Inv == part = "once" => ON!OnceInv
<1>1. PartsInit => Inv
    BY PartsAssumption, OnceInit DEF PartsInit
<1>2. Inv /\ [PartsNext]_partsvars => Inv'
  <2> SUFFICES ASSUME Inv, [PartsNext]_partsvars, part' = "once"
               PROVE  ON!OnceInv'
      OBVIOUS
  <2>1. part = "once"
      BY DEF PartsNext, partsvars
  <2>2. [ON!Next]_(ON!vars)
      BY <2>1 DEF PartsNext, partsvars, OnceVars, ON!vars
  <2> QED
      BY <2>1, <2>2, PartsAssumption, OnceStep
<1>3. Inv => OnceSafe
    BY DEF OnceSafe, ON!OnceInv, ON!TypeOK, ON!ExactlyOnce
<1> QED
    BY <1>1, <1>2, <1>3, PTL DEF PartsSpec
=============================================================================
