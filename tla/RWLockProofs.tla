---------------------------- MODULE RWLockProofs ----------------------------
(***************************************************************************)
(* Proofs about the reader/writer lock: the invariant IInv is inductive,   *)
(* and the safety properties follow from it, for any finite set of LWPs.   *)
(***************************************************************************)
EXTENDS RWLock, FiniteSetTheorems, TLAPS

(***************************************************************************)
(* What the operations on the lock word do to its fields.                  *)
(***************************************************************************)

\* The type of each field of a lock word.
LEMMA WordFields ==
    ASSUME NEW w \in Word
    PROVE  /\ w.has_waiters \in BOOLEAN /\ w.write_wanted \in BOOLEAN
           /\ w.write_locked \in BOOLEAN
           /\ w.thread \in LWP \cup {NoLWP} /\ w.count \in Nat
BY DEF Word

\* Two lock words with equal fields are equal.
LEMMA WordEquality ==
    ASSUME NEW w \in Word, NEW v \in Word,
           w.has_waiters = v.has_waiters, w.write_wanted = v.write_wanted,
           w.write_locked = v.write_locked,
           w.thread = v.thread, w.count = v.count
    PROVE  w = v
BY DEF Word

\* The free lock word.
LEMMA UnownedFields ==
    /\ Unowned \in Word
    /\ ~Unowned.has_waiters /\ ~Unowned.write_wanted /\ ~Unowned.write_locked
    /\ Unowned.thread = NoLWP /\ Unowned.count = 0
BY DEF Unowned, Word

\* A reader's increment changes the count alone.
LEMMA IncrReader ==
    ASSUME NEW w \in Word, NEW l \in LWP
    PROVE  LET v == Incr(w, l, "RW_READER")
           IN  /\ v \in Word
               /\ v.has_waiters = w.has_waiters
               /\ v.write_wanted = w.write_wanted
               /\ v.write_locked = w.write_locked
               /\ v.thread = w.thread /\ v.count = w.count + 1
BY DEF Incr, Word

\* A writer's increment sets the pointer and RW_WRITE_LOCKED.
LEMMA IncrWriter ==
    ASSUME NEW w \in Word, NEW l \in LWP
    PROVE  LET v == Incr(w, l, "RW_WRITER")
           IN  /\ v \in Word
               /\ v.has_waiters = w.has_waiters
               /\ v.write_wanted = w.write_wanted
               /\ v.write_locked
               /\ v.thread = l /\ v.count = w.count
BY DEF Incr, Word

\* Clearing RW_WRITE_WANTED changes nothing else.
LEMMA NoWantedFields ==
    ASSUME NEW w \in Word
    PROVE  LET v == NoWanted(w)
           IN  /\ v \in Word
               /\ v.has_waiters = w.has_waiters
               /\ ~v.write_wanted
               /\ v.write_locked = w.write_locked
               /\ v.thread = w.thread /\ v.count = w.count
BY DEF NoWanted, Word

\* A reader's decrement, of a read-held word.
LEMMA DecrReader ==
    ASSUME NEW w \in Word, w.count > 0
    PROVE  LET v == Decr(w, "RW_READER")
           IN  /\ v \in Word
               /\ v.has_waiters = w.has_waiters
               /\ v.write_wanted = w.write_wanted
               /\ v.write_locked = w.write_locked
               /\ v.thread = w.thread /\ v.count = w.count - 1
BY DEF Decr, Word

\* A writer's decrement.
LEMMA DecrWriter ==
    ASSUME NEW w \in Word
    PROVE  LET v == Decr(w, "RW_WRITER")
           IN  /\ v \in Word
               /\ v.has_waiters = w.has_waiters
               /\ v.write_wanted = w.write_wanted
               /\ ~v.write_locked
               /\ v.thread = NoLWP /\ v.count = w.count
BY DEF Decr, Word

\* Announcing a waiter sets bits and leaves the holders alone.
LEMMA SetWaitFields ==
    ASSUME NEW w \in Word, NEW o \in Op
    PROVE  LET v == SetWait(w, o)
           IN  /\ v \in Word
               /\ v.has_waiters
               /\ v.write_wanted <=> w.write_wanted \/ o = "RW_WRITER"
               /\ v.write_locked = w.write_locked
               /\ v.thread = w.thread /\ v.count = w.count
BY DEF SetWait, Word

\* The word rw_downgrade() leaves when nobody waits.
LEMMA OneReaderFields ==
    LET v == [Unowned EXCEPT !.count = 1]
    IN  /\ v \in Word
        /\ ~v.has_waiters /\ ~v.write_wanted /\ ~v.write_locked
        /\ v.thread = NoLWP /\ v.count = 1
BY DEF Unowned, Word

\* The word rw_exit() leaves when it wakes every writer.
LEMMA WantedFields ==
    LET v == [Unowned EXCEPT !.write_wanted = TRUE]
    IN  /\ v \in Word
        /\ ~v.has_waiters /\ v.write_wanted /\ ~v.write_locked
        /\ v.thread = NoLWP /\ v.count = 0
BY DEF Unowned, Word

\* The word rw_tryupgrade() leaves: the waiter bits are kept.
LEMMA UpgradedFields ==
    ASSUME NEW w \in Word, NEW l \in LWP
    PROVE  LET v == [w EXCEPT !.write_locked = TRUE, !.thread = l, !.count = 0]
           IN  /\ v \in Word
               /\ v.has_waiters = w.has_waiters
               /\ v.write_wanted = w.write_wanted
               /\ v.write_locked /\ v.thread = l /\ v.count = 0
BY DEF Word

\* The word that hands the lock to the sleeping readers.
LEMMA HandToReadersFields ==
    ASSUME NEW e \in Nat, TS_WAITERS("TS_READER_Q") \in Nat
    PROVE  LET v == HandToReaders(e)
           IN  /\ v \in Word
               /\ v.has_waiters <=> TS_WAITERS("TS_WRITER_Q") # 0
               /\ v.write_wanted <=> TS_WAITERS("TS_WRITER_Q") # 0
               /\ ~v.write_locked /\ v.thread = NoLWP
               /\ v.count = TS_WAITERS("TS_READER_Q") + e
<1> DEFINE b == TS_WAITERS("TS_WRITER_Q") # 0
           c == TS_WAITERS("TS_READER_Q") + e
<1>1. b \in BOOLEAN /\ c \in Nat
    OBVIOUS
<1>2. HandToReaders(e) =
         [has_waiters |-> b, write_wanted |-> b, write_locked |-> FALSE,
          thread |-> NoLWP, count |-> c]
    BY DEF HandToReaders
<1> HIDE DEF b, c
<1>3. LET v == HandToReaders(e)
      IN  /\ v \in Word /\ v.has_waiters = b /\ v.write_wanted = b
          /\ v.write_locked = FALSE /\ v.thread = NoLWP /\ v.count = c
    BY <1>1, <1>2 DEF Word
<1> QED
    BY <1>1, <1>3 DEF b, c

\* The word that hands the lock to writer x.
LEMMA HandToWriterFields ==
    ASSUME NEW x \in LWP
    PROVE  LET v == HandToWriter(x)
           IN  /\ v \in Word
               /\ v.has_waiters /\ v.write_locked
               /\ v.write_wanted <=> TS_WAITERS("TS_WRITER_Q") > 1
               /\ v.thread = x /\ v.count = 0
<1> DEFINE b == TS_WAITERS("TS_WRITER_Q") > 1
<1>1. b \in BOOLEAN
    OBVIOUS
<1>2. HandToWriter(x) =
         [has_waiters |-> TRUE, write_wanted |-> b, write_locked |-> TRUE,
          thread |-> x, count |-> 0]
    BY DEF HandToWriter
<1> HIDE DEF b
<1>3. LET v == HandToWriter(x)
      IN  /\ v \in Word /\ v.has_waiters /\ v.write_wanted = b
          /\ v.write_locked /\ v.thread = x /\ v.count = 0
    BY <1>1, <1>2 DEF Word
<1> QED
    BY <1>1, <1>3 DEF b

\* The readers are finitely many.
LEMMA FiniteReaders ==
    /\ IsFiniteSet(Readers)
    /\ Cardinality(Readers) \in Nat
    /\ Cardinality(Readers) = 0 <=> Readers = {}
BY LWPAssumption, FS_Subset, FS_CardinalityType, FS_EmptySet DEF Readers

\* ts_waiters counts a finite queue, and is zero for an empty one.
LEMMA WaitersCount ==
    ASSUME TypeOK, NEW q \in {"TS_READER_Q", "TS_WRITER_Q"}
    PROVE  /\ IsFiniteSet(sleepq[q])
           /\ TS_WAITERS(q) \in Nat
           /\ TS_WAITERS(q) = 0 <=> sleepq[q] = {}
<1>1. sleepq[q] \in SUBSET LWP
    BY DEF TypeOK
<1> QED
    BY <1>1, LWPAssumption, FS_Subset, FS_CardinalityType, FS_EmptySet
    DEF TS_WAITERS

\* The word shows a holder's own hold: a writer's pointer, or a count of read
\* holds; and it shows only one of the two.
LEMMA HolderInWord ==
    ASSUME IInv, NEW x \in LWP, pc[x] \in InLock
    PROVE  \/ /\ op[x] = "RW_WRITER" /\ rw_owner.thread = x
              /\ rw_owner.write_locked /\ rw_owner.count = 0
              /\ Readers = {} /\ Writers = {x}
           \/ /\ op[x] = "RW_READER" /\ rw_owner.thread = NoLWP
              /\ ~rw_owner.write_locked
              /\ rw_owner.count \in Nat /\ rw_owner.count > 0
              /\ x \in Readers /\ Writers = {}
<1> USE DEF IInv
<1>1. CASE op[x] = "RW_WRITER"
  <2>1. x \in Writers
      BY <1>1 DEF Writers
  <2>2. rw_owner.thread = x /\ \A y \in Writers : y = x
      BY <2>1 DEF WordInv
  <2>3. rw_owner.write_locked /\ rw_owner.count = 0
      BY <2>2, LWPAssumption DEF WordInv
  <2>4. Readers = {}
      BY <2>3, FiniteReaders DEF WordInv
  <2> QED
      BY <1>1, <2>1, <2>2, <2>3, <2>4
<1>2. CASE op[x] = "RW_READER"
  <2>1. x \in Readers
      BY <1>2 DEF Readers
  <2>2. rw_owner.count \in Nat /\ rw_owner.count > 0
      BY <2>1, FiniteReaders DEF WordInv
  <2>3. ~rw_owner.write_locked /\ rw_owner.thread = NoLWP
      BY <2>2 DEF WordInv, TypeOK, Word
  <2>4. Writers = {}
      BY <2>3, LWPAssumption DEF WordInv, Writers
  <2> QED
      BY <1>2, <2>1, <2>2, <2>3, <2>4
<1> QED
    BY <1>1, <1>2 DEF ControlInv, TypeOK, Op, InLock

-----------------------------------------------------------------------------
(***************************************************************************)
(* IInv holds initially.                                                   *)
(***************************************************************************)
LEMMA InitIInv == Init => IInv
<1> SUFFICES ASSUME Init PROVE IInv
    OBVIOUS
<1>1. TypeOK
    BY UnownedFields DEF Init, TypeOK, InEnter, InLock, Op
<1>2. Readers = {} /\ Writers = {}
    BY DEF Init, Readers, Writers, InLock
<1>3. WordInv
    BY <1>2, FS_EmptySet, LWPAssumption, UnownedFields DEF Init, WordInv
<1>4. ControlInv
    BY LWPAssumption DEF Init, ControlInv
<1>5. WaitersInv
    BY UnownedFields DEF Init, WaitersInv
<1>6. CopyInv
    BY DEF Init, CopyInv
<1> QED
    BY <1>1, <1>3, <1>4, <1>5, <1>6 DEF IInv

-----------------------------------------------------------------------------
(***************************************************************************)
(* Every step preserves IInv.  One lemma per action.                       *)
(***************************************************************************)
USE DEF NoTurnstile, Goto, Return, Leaves, Queue

\* The call only loads the word.
LEMMA EnterCallInv ==
    ASSUME IInv, NEW l \in LWP, NEW o \in Op, EnterCall(l, o)
    PROVE  IInv'
<1> USE DEF IInv
<1>1. TypeOK'
    BY UnownedFields DEF EnterCall, TypeOK, InEnter, InLock
<1>2. Readers' = Readers /\ Writers' = Writers
    BY DEF EnterCall, TypeOK, Readers, Writers, InLock, ControlInv, WordInv, Op
<1>3. WordInv'
    BY <1>2, LWPAssumption DEF EnterCall, TypeOK, WordInv, InLock
<1>4. ControlInv'
    BY LWPAssumption DEF EnterCall, TypeOK, ControlInv, Op
<1>5. WaitersInv'
    BY DEF EnterCall, TypeOK, WaitersInv, InEnter, NoThread
<1>6. CopyInv'
    BY DEF EnterCall, TypeOK, CopyInv
<1> QED
    BY <1>1, <1>3, <1>4, <1>5, <1>6

\* Deciding to spin or to go for the chain lock changes no shared state.
LEMMA EnterWaitInv ==
    ASSUME IInv, NEW l \in LWP, EnterWait(l)
    PROVE  IInv'
<1> USE DEF IInv
<1>1. TypeOK'
    BY UnownedFields DEF EnterWait, TypeOK, InEnter, InLock
<1>2. Readers' = Readers /\ Writers' = Writers
    BY DEF EnterWait, TypeOK, Readers, Writers, InLock, ControlInv, WordInv, Op
<1>3. WordInv'
    BY <1>2, LWPAssumption DEF EnterWait, TypeOK, WordInv, InLock
<1>4. ControlInv'
    BY LWPAssumption DEF EnterWait, TypeOK, ControlInv, Op
<1>5. WaitersInv'
    BY DEF EnterWait, TypeOK, WaitersInv, InEnter, NoThread
<1>6. CopyInv'
    BY DEF EnterWait, TypeOK, CopyInv
<1> QED
    BY <1>1, <1>3, <1>4, <1>5, <1>6

\* A round of the spin loop only reloads the word.
LEMMA EnterSpinInv ==
    ASSUME IInv, NEW l \in LWP, EnterSpin(l)
    PROVE  IInv'
<1> USE DEF IInv
<1>1. TypeOK'
    BY UnownedFields DEF EnterSpin, TypeOK, InEnter, InLock
<1>2. Readers' = Readers /\ Writers' = Writers
    BY DEF EnterSpin, TypeOK, Readers, Writers, InLock, ControlInv, WordInv, Op
<1>3. WordInv'
    BY <1>2, LWPAssumption DEF EnterSpin, TypeOK, WordInv, InLock
<1>4. ControlInv'
    BY LWPAssumption DEF EnterSpin, TypeOK, ControlInv, Op
<1>5. WaitersInv'
    BY DEF EnterSpin, TypeOK, WaitersInv, InEnter, NoThread
<1>6. CopyInv'
    BY DEF EnterSpin, TypeOK, CopyInv
<1> QED
    BY <1>1, <1>3, <1>4, <1>5, <1>6

\* The lock came free while waiting for the chain lock.
LEMMA EnterLookupRetryInv ==
    ASSUME IInv, NEW l \in LWP, EnterLookupRetry(l)
    PROVE  IInv'
<1> USE DEF IInv
<1>1. TypeOK'
    BY UnownedFields DEF EnterLookupRetry, TypeOK, InEnter, InLock
<1>2. Readers' = Readers /\ Writers' = Writers
    BY DEF EnterLookupRetry, TypeOK, Readers, Writers, InLock, ControlInv, WordInv, Op
<1>3. WordInv'
    BY <1>2, LWPAssumption DEF EnterLookupRetry, TypeOK, WordInv, InLock
<1>4. ControlInv'
    BY LWPAssumption DEF EnterLookupRetry, TypeOK, ControlInv, Op
<1>5. WaitersInv'
    BY DEF EnterLookupRetry, TypeOK, WaitersInv, InEnter, NoThread
<1>6. CopyInv'
    BY DEF EnterLookupRetry, TypeOK, CopyInv
<1> QED
    BY <1>1, <1>3, <1>4, <1>5, <1>6

\* The chain lock is taken, the word is reloaded.
LEMMA EnterLookupInv ==
    ASSUME IInv, NEW l \in LWP, EnterLookup(l)
    PROVE  IInv'
<1> USE DEF IInv
<1>1. TypeOK'
    BY UnownedFields DEF EnterLookup, TypeOK, InEnter, InLock
<1>2. Readers' = Readers /\ Writers' = Writers
    BY DEF EnterLookup, TypeOK, Readers, Writers, InLock, ControlInv, WordInv, Op
<1>3. WordInv'
    BY <1>2, LWPAssumption DEF EnterLookup, TypeOK, WordInv, InLock
<1>4. ControlInv'
    BY LWPAssumption DEF EnterLookup, TypeOK, ControlInv, Op
<1>5. WaitersInv'
    BY DEF EnterLookup, TypeOK, WaitersInv, InEnter, NoThread
<1>6. CopyInv'
    BY DEF EnterLookup, TypeOK, CopyInv
<1> QED
    BY <1>1, <1>3, <1>4, <1>5, <1>6

\* An LWP handed the lock returns with it, any other goes round again.
LEMMA EnterAwakeInv ==
    ASSUME IInv, NEW l \in LWP, EnterAwake(l)
    PROVE  IInv'
<1> USE DEF IInv
<1>1. TypeOK'
    BY UnownedFields DEF EnterAwake, TypeOK, InEnter, InLock
<1>2. /\ Readers' = Readers
      /\ Writers' \subseteq Writers \cup {rw_owner.thread}
    BY DEF EnterAwake, TypeOK, Readers, Writers, InLock
<1>3. WordInv'
    BY <1>2, LWPAssumption DEF EnterAwake, TypeOK, WordInv, InLock
<1>4. ControlInv'
    BY LWPAssumption DEF EnterAwake, TypeOK, ControlInv, Op
<1>5. WaitersInv'
    BY DEF EnterAwake, TypeOK, WaitersInv, InEnter, NoThread
<1>6. CopyInv'
    BY DEF EnterAwake, TypeOK, CopyInv
<1> QED
    BY <1>1, <1>3, <1>4, <1>5, <1>6

\* The word shows the holder's own hold.
LEMMA ExitCallInv ==
    ASSUME IInv, NEW l \in LWP, ExitCall(l)
    PROVE  IInv'
<1> USE DEF IInv
<1>1. TypeOK'
    BY UnownedFields DEF ExitCall, TypeOK, InEnter, InLock
<1>2. Readers' = Readers /\ Writers' = Writers
    BY DEF ExitCall, TypeOK, Readers, Writers, InLock, ControlInv, WordInv, Op
<1>3. WordInv'
    BY <1>2, LWPAssumption DEF ExitCall, TypeOK, WordInv, InLock
<1>4. ControlInv'
    BY LWPAssumption DEF ExitCall, TypeOK, ControlInv, Op
<1>5. WaitersInv'
    BY DEF ExitCall, TypeOK, WaitersInv, InEnter, NoThread
<1>6. ExitOp(rw_owner) = op[l]
  <2>1. CASE op[l] = "RW_READER"
    <3>1. l \in Readers
        BY <2>1 DEF ExitCall, Readers, InLock
    <3>2. rw_owner.count # 0
        BY <3>1, FiniteReaders DEF WordInv
    <3> QED
        BY <2>1, <3>2 DEF WordInv, ExitOp
  <2>2. CASE op[l] = "RW_WRITER"
    <3>1. rw_owner.thread = l
        BY <2>2 DEF ExitCall, Writers, InLock, WordInv
    <3> QED
        BY <2>2, <3>1, LWPAssumption DEF WordInv, ExitOp
  <2> QED
        BY <2>1, <2>2 DEF ExitCall, ControlInv, TypeOK, Op
<1>7. MustHandOver(rw_owner) =>
         /\ rw_owner.has_waiters
         /\ op[l] = "RW_READER" => rw_owner.count = 1
  <2> SUFFICES ASSUME MustHandOver(rw_owner), op[l] = "RW_READER"
               PROVE  rw_owner.count = 1
      BY DEF MustHandOver
  <2>1. l \in Readers
      BY DEF ExitCall, Readers, InLock
  <2>2. rw_owner.count \in Nat /\ rw_owner.count > 0
      BY <2>1, FiniteReaders DEF WordInv
  <2>3. Decr(rw_owner, "RW_READER").count = rw_owner.count - 1
      BY <2>2, DecrReader DEF TypeOK
  <2> QED
      BY <1>6, <2>2, <2>3 DEF MustHandOver, NoThread
<1>8. CopyInv'
    BY <1>6, <1>7 DEF ExitCall, TypeOK, CopyInv
<1> QED
    BY <1>1, <1>3, <1>4, <1>5, <1>8

\* Under the chain lock the word is read again: nothing has moved that matters.
LEMMA ExitLookupInv ==
    ASSUME IInv, NEW l \in LWP, ExitLookup(l)
    PROVE  IInv'
<1> USE DEF IInv
<1>1. TypeOK'
    BY UnownedFields DEF ExitLookup, TypeOK, InEnter, InLock
<1>2. Readers' = Readers /\ Writers' = Writers
    BY DEF ExitLookup, TypeOK, Readers, Writers, InLock, ControlInv, WordInv, Op
<1>3. WordInv'
    BY <1>2, LWPAssumption DEF ExitLookup, TypeOK, WordInv, InLock
<1>4. ControlInv'
    BY LWPAssumption DEF ExitLookup, TypeOK, ControlInv, Op
<1>5. WaitersInv'
    BY DEF ExitLookup, TypeOK, WaitersInv, InEnter, NoThread
<1>6. CopyInv'
    BY DEF ExitLookup, TypeOK, CopyInv
<1> QED
    BY <1>1, <1>3, <1>4, <1>5, <1>6

\* The call loads the word, or fails at once.
LEMMA TryEnterCallInv ==
    ASSUME IInv, NEW l \in LWP, NEW o \in Op, TryEnterCall(l, o)
    PROVE  IInv'
<1> USE DEF IInv
<1>1. TypeOK'
    BY UnownedFields DEF TryEnterCall, TypeOK, InEnter, InLock
<1>2. Readers' = Readers /\ Writers' = Writers
    BY DEF TryEnterCall, TypeOK, Readers, Writers, InLock, ControlInv, WordInv, Op
<1>3. WordInv'
    BY <1>2, LWPAssumption DEF TryEnterCall, TypeOK, WordInv, InLock
<1>4. ControlInv'
    BY LWPAssumption DEF TryEnterCall, TypeOK, ControlInv, Op
<1>5. WaitersInv'
    BY DEF TryEnterCall, TypeOK, WaitersInv, InEnter, NoThread
<1>6. CopyInv'
    BY DEF TryEnterCall, TypeOK, CopyInv
<1> QED
    BY <1>1, <1>3, <1>4, <1>5, <1>6

\* The writer reads its own word.
LEMMA DowngradeCallInv ==
    ASSUME IInv, NEW l \in LWP, DowngradeCall(l)
    PROVE  IInv'
<1> USE DEF IInv
<1>1. TypeOK'
    BY UnownedFields DEF DowngradeCall, TypeOK, InEnter, InLock
<1>2. Readers' = Readers /\ Writers' = Writers
    BY DEF DowngradeCall, TypeOK, Readers, Writers, InLock, ControlInv, WordInv, Op
<1>3. WordInv'
    BY <1>2, LWPAssumption DEF DowngradeCall, TypeOK, WordInv, InLock
<1>4. ControlInv'
    BY LWPAssumption DEF DowngradeCall, TypeOK, ControlInv, Op
<1>5. WaitersInv'
    BY DEF DowngradeCall, TypeOK, WaitersInv, InEnter, NoThread
<1>6. CopyInv'
    BY DEF DowngradeCall, TypeOK, CopyInv
<1> QED
    BY <1>1, <1>3, <1>4, <1>5, <1>6

\* The chain lock is taken.
LEMMA DowngradeLookupInv ==
    ASSUME IInv, NEW l \in LWP, DowngradeLookup(l)
    PROVE  IInv'
<1> USE DEF IInv
<1>1. TypeOK'
    BY UnownedFields DEF DowngradeLookup, TypeOK, InEnter, InLock
<1>2. Readers' = Readers /\ Writers' = Writers
    BY DEF DowngradeLookup, TypeOK, Readers, Writers, InLock, ControlInv, WordInv, Op
<1>3. WordInv'
    BY <1>2, LWPAssumption DEF DowngradeLookup, TypeOK, WordInv, InLock
<1>4. ControlInv'
    BY LWPAssumption DEF DowngradeLookup, TypeOK, ControlInv, Op
<1>5. WaitersInv'
    BY DEF DowngradeLookup, TypeOK, WaitersInv, InEnter, NoThread
<1>6. CopyInv'
    BY DEF DowngradeLookup, TypeOK, CopyInv
<1> QED
    BY <1>1, <1>3, <1>4, <1>5, <1>6

\* A waiter announced itself: start again.
LEMMA DowngradeRetryInv ==
    ASSUME IInv, NEW l \in LWP, DowngradeRetry(l)
    PROVE  IInv'
<1> USE DEF IInv
<1>1. TypeOK'
    BY UnownedFields DEF DowngradeRetry, TypeOK, InEnter, InLock
<1>2. Readers' = Readers /\ Writers' = Writers
    BY DEF DowngradeRetry, TypeOK, Readers, Writers, InLock, ControlInv, WordInv, Op
<1>3. WordInv'
    BY <1>2, LWPAssumption DEF DowngradeRetry, TypeOK, WordInv, InLock
<1>4. ControlInv'
    BY LWPAssumption DEF DowngradeRetry, TypeOK, ControlInv, Op
<1>5. WaitersInv'
    BY DEF DowngradeRetry, TypeOK, WaitersInv, InEnter, NoThread
<1>6. CopyInv'
    BY DEF DowngradeRetry, TypeOK, CopyInv
<1> QED
    BY <1>1, <1>3, <1>4, <1>5, <1>6

\* The reader reads the word.
LEMMA TryUpgradeCallInv ==
    ASSUME IInv, NEW l \in LWP, TryUpgradeCall(l)
    PROVE  IInv'
<1> USE DEF IInv
<1>1. TypeOK'
    BY UnownedFields DEF TryUpgradeCall, TypeOK, InEnter, InLock
<1>2. Readers' = Readers /\ Writers' = Writers
    BY DEF TryUpgradeCall, TypeOK, Readers, Writers, InLock, ControlInv, WordInv, Op
<1>3. WordInv'
    BY <1>2, LWPAssumption DEF TryUpgradeCall, TypeOK, WordInv, InLock
<1>4. ControlInv'
    BY LWPAssumption DEF TryUpgradeCall, TypeOK, ControlInv, Op
<1>5. WaitersInv'
    BY DEF TryUpgradeCall, TypeOK, WaitersInv, InEnter, NoThread
<1>6. CopyInv'
    BY DEF TryUpgradeCall, TypeOK, CopyInv
<1> QED
    BY <1>1, <1>3, <1>4, <1>5, <1>6

\* The compare-and-swap adds this LWP's hold to a word that allows it.
LEMMA EnterCasInv ==
    ASSUME IInv, NEW l \in LWP, EnterCas(l)
    PROVE  IInv'
<1> USE DEF IInv
<1>1. CASE rw_owner # owner[l]
  <2>1. TypeOK'
      BY <1>1 DEF EnterCas, TypeOK, InEnter, InLock
  <2>2. Readers' = Readers /\ Writers' = Writers
      BY <1>1 DEF EnterCas, TypeOK, Readers, Writers, InLock
  <2>3. WordInv'
      BY <1>1, <2>2, LWPAssumption DEF EnterCas, TypeOK, WordInv, InLock
  <2>4. ControlInv'
      BY <1>1, LWPAssumption DEF EnterCas, TypeOK, ControlInv, Op
  <2>5. WaitersInv'
      BY <1>1 DEF EnterCas, TypeOK, WaitersInv, InEnter, NoThread
  <2>6. CopyInv'
      BY <1>1 DEF EnterCas, TypeOK, CopyInv
  <2> QED
      BY <2>1, <2>3, <2>4, <2>5, <2>6
<1>2. CASE rw_owner = owner[l] /\ op[l] = "RW_READER"
  <2>1. /\ rw_owner' \in Word
        /\ ~rw_owner'.write_wanted /\ ~rw_owner.write_wanted
        /\ ~rw_owner'.write_locked /\ ~rw_owner.write_locked
        /\ rw_owner'.has_waiters = rw_owner.has_waiters
        /\ rw_owner'.thread = rw_owner.thread
        /\ rw_owner'.count = rw_owner.count + 1
        /\ rw_owner.count \in Nat
      BY <1>2, IncrReader, NoWantedFields, WordFields
      DEF EnterCas, TypeOK, NeedWait
  <2>2. TypeOK'
      BY <1>2, <2>1, UnownedFields DEF EnterCas, TypeOK, InEnter, InLock
  <2>3. Readers' = Readers \cup {l} /\ l \notin Readers /\ Writers' = Writers
      BY <1>2 DEF EnterCas, TypeOK, Readers, Writers, InLock
  <2>4. Cardinality(Readers') = Cardinality(Readers) + 1
      BY <2>3, FiniteReaders, FS_AddElement
  <2>5. WordInv'
      BY <1>2, <2>1, <2>3, <2>4, LWPAssumption
      DEF EnterCas, TypeOK, WordInv, InLock
  <2>6. ControlInv'
      BY <1>2, LWPAssumption DEF EnterCas, TypeOK, ControlInv, Op
  <2>7. WaitersInv'
      BY <1>2, <2>1 DEF EnterCas, TypeOK, WaitersInv, WordInv, NoThread
  <2>8. \A x \in LWP :
           /\ pc[x] \notin {"handover", "down_easy", "down_lookup", "downgrade"}
           /\ pc[x] = "exit" => ~MustHandOver(owner[x])
    <3> SUFFICES ASSUME NEW x \in LWP, pc[x] \in InLock
                 PROVE  /\ pc[x] \notin {"handover", "down_easy", "down_lookup",
                                         "downgrade"}
                        /\ pc[x] = "exit" => ~MustHandOver(owner[x])
        BY DEF InLock
    <3>1. op[x] = "RW_READER" /\ rw_owner.count > 0
        BY <2>1, HolderInWord
    <3>2. ~rw_owner.has_waiters
        BY <2>1, <3>1 DEF WaitersInv
    <3> QED
        BY <3>1, <3>2 DEF CopyInv, ControlInv
  <2>9. CopyInv'
      BY <1>2, <2>1, <2>8 DEF EnterCas, TypeOK, CopyInv
  <2> QED
      BY <2>2, <2>5, <2>6, <2>7, <2>9
<1>3. CASE rw_owner = owner[l] /\ op[l] = "RW_WRITER"
  <2>1. /\ rw_owner' \in Word
        /\ ~rw_owner'.write_wanted
        /\ rw_owner'.write_locked /\ ~rw_owner.write_locked
        /\ rw_owner'.has_waiters = rw_owner.has_waiters
        /\ rw_owner'.thread = l /\ rw_owner.thread = NoLWP
        /\ rw_owner'.count = 0 /\ rw_owner.count = 0
    <3> DEFINE w == Incr(rw_owner, l, "RW_WRITER")
    <3>1. rw_owner' = NoWanted(w) /\ ~rw_owner.write_locked
          /\ rw_owner.thread = NoLWP /\ rw_owner.count = 0 /\ rw_owner \in Word
        BY <1>3 DEF EnterCas, TypeOK, NeedWait, NoThread
    <3>2. /\ w \in Word /\ w.has_waiters = rw_owner.has_waiters
          /\ w.write_locked /\ w.thread = l /\ w.count = rw_owner.count
        BY <3>1, IncrWriter
    <3> HIDE DEF w
    <3> QED
        BY <3>1, <3>2, NoWantedFields
  <2>2. TypeOK'
      BY <1>3, <2>1, UnownedFields DEF EnterCas, TypeOK, InEnter, InLock
  <2>3. Readers = {} /\ Writers = {}
      BY <2>1, FiniteReaders, LWPAssumption DEF WordInv, Writers
  <2>9. Readers' = Readers /\ Writers' = {l}
      BY <1>3, <2>3 DEF EnterCas, TypeOK, Readers, Writers, InLock
  <2>4. WordInv'
      BY <1>3, <2>1, <2>3, <2>9, LWPAssumption, FiniteReaders
      DEF EnterCas, TypeOK, WordInv, InLock
  <2>5. ControlInv'
      BY <1>3, LWPAssumption DEF EnterCas, TypeOK, ControlInv, Op
  <2>6. WaitersInv'
      BY <1>3, <2>1, LWPAssumption DEF EnterCas, TypeOK, WaitersInv, NoThread
  <2>7. \A x \in LWP : pc[x] \notin InLock
      BY <2>3 DEF Readers, Writers, ControlInv, TypeOK, InLock, Op
  <2>8. CopyInv'
      BY <1>3, <2>7 DEF EnterCas, TypeOK, CopyInv, InLock
  <2> QED
      BY <2>2, <2>4, <2>5, <2>6, <2>8
<1> QED
    BY <1>1, <1>2, <1>3 DEF EnterCas, TypeOK, ControlInv, Op

\* The waiter bits are set and the LWP sleeps under the chain lock, so whoever
\* must hand the lock over sees both or neither.
LEMMA EnterBlockInv ==
    ASSUME IInv, NEW l \in LWP, EnterBlock(l)
    PROVE  IInv'
<1> USE DEF IInv
<1>1. CASE rw_owner # owner[l]
  <2>1. TypeOK'
      BY <1>1, UnownedFields DEF EnterBlock, TypeOK, InEnter, InLock
  <2>2. Readers' = Readers /\ Writers' = Writers
      BY <1>1 DEF EnterBlock, TypeOK, Readers, Writers, InLock, ControlInv, Op
  <2>3. WordInv'
      BY <1>1, <2>2, LWPAssumption DEF EnterBlock, TypeOK, WordInv, InLock
  <2>4. ControlInv'
      BY <1>1, LWPAssumption DEF EnterBlock, TypeOK, ControlInv, Op
  <2>5. WaitersInv'
      BY <1>1 DEF EnterBlock, TypeOK, WaitersInv, InEnter, NoThread
  <2>6. CopyInv'
      BY <1>1 DEF EnterBlock, TypeOK, CopyInv
  <2> QED
      BY <2>1, <2>3, <2>4, <2>5, <2>6
<1>2. CASE rw_owner = owner[l]
  <2>1. op[l] \in Op /\ NeedWait(rw_owner, op[l]) /\ tc_mutex = l
      BY <1>2 DEF EnterBlock, TypeOK, ControlInv, CopyInv, Op
  <2>2. /\ rw_owner' \in Word /\ rw_owner'.has_waiters
        /\ rw_owner'.write_wanted <=>
              rw_owner.write_wanted \/ op[l] = "RW_WRITER"
        /\ rw_owner'.write_locked = rw_owner.write_locked
        /\ rw_owner'.thread = rw_owner.thread
        /\ rw_owner'.count = rw_owner.count
      BY <1>2, <2>1, SetWaitFields DEF EnterBlock, TypeOK
  <2>3. TypeOK'
      BY <1>2, <2>1, <2>2 DEF EnterBlock, TurnstileBlock, TypeOK, InEnter, InLock
  <2>4. Readers' = Readers /\ Writers' = Writers
      BY <1>2 DEF EnterBlock, TypeOK, Readers, Writers, InLock
  <2>5. WordInv'
      BY <1>2, <2>2, <2>4, LWPAssumption DEF EnterBlock, TypeOK, WordInv, InLock
  <2>6. ControlInv'
      BY <1>2, <2>1, LWPAssumption
      DEF EnterBlock, TurnstileBlock, TypeOK, ControlInv, Op
  <2>7. WaitersInv'
    <3>1. CASE op[l] = "RW_READER"
      <4>1. /\ sleepq'["TS_READER_Q"] # {}
            /\ sleepq'["TS_WRITER_Q"] = sleepq["TS_WRITER_Q"]
          BY <1>2, <3>1 DEF EnterBlock, TurnstileBlock, TypeOK
      <4>2. rw_owner.write_locked \/ rw_owner.write_wanted
          BY <2>1, <3>1 DEF NeedWait
      <4>3. \A x \in LWP : op[x] = "RW_WRITER" => pc'[x] = pc[x] /\ op' = op
          BY <1>2, <3>1 DEF EnterBlock, TypeOK
      <4> QED
          BY <2>2, <3>1, <4>1, <4>2, <4>3, LWPAssumption
          DEF WaitersInv, WordInv, NoThread, TypeOK
    <3>2. CASE op[l] = "RW_WRITER"
      <4>1. /\ sleepq'["TS_WRITER_Q"] # {}
            /\ sleepq'["TS_READER_Q"] = sleepq["TS_READER_Q"]
          BY <1>2, <3>2 DEF EnterBlock, TurnstileBlock, TypeOK
      <4>2. ~NoThread(rw_owner)
          BY <2>1, <3>2 DEF NeedWait, WordInv, NoThread
      <4> QED
          BY <2>2, <3>2, <4>1, <4>2 DEF WaitersInv, NoThread
    <3> QED
        BY <2>1, <3>1, <3>2 DEF Op
  <2>8. CopyInv'
    <3>1. \A x \in LWP \ {l} : pc[x] \notin {"handover", "downgrade"}
        BY <2>1 DEF ControlInv
    <3> QED
        BY <1>2, <2>2, <3>1 DEF EnterBlock, TypeOK, CopyInv
  <2> QED
      BY <2>3, <2>5, <2>6, <2>7, <2>8
<1> QED
    BY <1>1, <1>2

\* A holder that must hand over holds the lock for writing or is the last
\* reader.
LEMMA LastReader ==
    ASSUME IInv, NEW l \in LWP, pc[l] \in InLock, MustHandOver(rw_owner)
    PROVE  /\ rw_owner.has_waiters
           /\ op[l] = "RW_READER" => rw_owner.count = 1
<1> SUFFICES ASSUME op[l] = "RW_READER" PROVE rw_owner.count = 1
    BY DEF MustHandOver
<1>1. rw_owner.count \in Nat /\ rw_owner.count > 0 /\ ~rw_owner.write_locked
    BY HolderInWord
<1>2. Decr(rw_owner, "RW_READER").count = rw_owner.count - 1
    BY <1>1, DecrReader DEF IInv, TypeOK
<1> QED
    BY <1>1, <1>2 DEF MustHandOver, NoThread, ExitOp

\* The compare-and-swap takes this LWP's hold off a word that leaves nobody
\* behind.
LEMMA ExitCasInv ==
    ASSUME IInv, NEW l \in LWP, ExitCas(l)
    PROVE  IInv'
<1> USE DEF IInv
<1>1. CASE rw_owner # owner[l]
  <2>1. TypeOK'
      BY <1>1, UnownedFields DEF ExitCas, TypeOK, InEnter, InLock, Op
  <2>2. Readers' = Readers /\ Writers' = Writers
      BY <1>1 DEF ExitCas, TypeOK, Readers, Writers, InLock, ControlInv, Op
  <2>3. WordInv'
      BY <1>1, <2>2, LWPAssumption DEF ExitCas, TypeOK, WordInv, InLock
  <2>4. ControlInv'
      BY <1>1, LWPAssumption DEF ExitCas, TypeOK, ControlInv, Op
  <2>5. WaitersInv'
      BY <1>1 DEF ExitCas, TypeOK, WaitersInv, InEnter, NoThread
  <2>6. ExitOp(rw_owner) = op[l]
      BY HolderInWord DEF ExitCas, InLock, ExitOp
  <2>7. MustHandOver(rw_owner) =>
           rw_owner.has_waiters /\ (op[l] = "RW_READER" => rw_owner.count = 1)
      BY LastReader DEF ExitCas, InLock
  <2>8. CopyInv'
      BY <1>1, <2>6, <2>7 DEF ExitCas, TypeOK, CopyInv
  <2> QED
      BY <2>1, <2>3, <2>4, <2>5, <2>8
<1>2. CASE rw_owner = owner[l] /\ op[l] = "RW_READER"
  <2>1. /\ rw_owner.count \in Nat /\ rw_owner.count > 0 /\ ~rw_owner.write_locked
        /\ rw_owner.thread = NoLWP /\ l \in Readers /\ Writers = {}
      BY <1>2, HolderInWord DEF ExitCas, InLock
  <2>2. rw_owner' = Decr(rw_owner, "RW_READER")
      BY <1>2, <2>1 DEF ExitCas, ExitOp
  <2>3. /\ rw_owner' \in Word
        /\ rw_owner'.has_waiters = rw_owner.has_waiters
        /\ rw_owner'.write_wanted = rw_owner.write_wanted
        /\ ~rw_owner'.write_locked /\ rw_owner'.thread = NoLWP
        /\ rw_owner'.count = rw_owner.count - 1
      BY <2>1, <2>2, DecrReader DEF TypeOK
  <2>4. rw_owner.has_waiters => rw_owner'.count > 0
      BY <1>2, <2>1, <2>2, <2>3 DEF ExitCas, MustHandOver, ExitOp, NoThread
  <2>5. TypeOK'
      BY <1>2, <2>3, UnownedFields DEF ExitCas, TypeOK, InEnter, InLock
  <2>6. Readers' = Readers \ {l} /\ Writers' = Writers
      BY <1>2 DEF ExitCas, TypeOK, Readers, Writers, InLock
  <2>7. Cardinality(Readers') = Cardinality(Readers) - 1
      BY <2>1, <2>6, FiniteReaders, FS_RemoveElement
  <2>8. WordInv'
      BY <1>2, <2>1, <2>3, <2>6, <2>7, LWPAssumption
      DEF ExitCas, TypeOK, WordInv, InLock
  <2>9. ControlInv'
      BY <1>2, LWPAssumption DEF ExitCas, TypeOK, ControlInv, Op
  <2>10. WaitersInv'
    <3>1. \A x \in LWP : op[x] = "RW_WRITER" => pc'[x] = pc[x] /\ op'[x] = op[x]
        BY <1>2 DEF ExitCas, TypeOK
    <3>2. sleepq' = sleepq
        BY DEF ExitCas
    <3> QED
        BY <2>1, <2>3, <2>4, <3>1, <3>2 DEF WaitersInv, NoThread, TypeOK
  <2>11. \A x \in LWP \ {l} :
            pc[x] \in InLock => op[x] = "RW_READER" /\ rw_owner.count # 1
    <3> SUFFICES ASSUME NEW x \in LWP \ {l}, pc[x] \in InLock
                 PROVE  op[x] = "RW_READER" /\ rw_owner.count # 1
        OBVIOUS
    <3>1. op[x] = "RW_READER" /\ x \in Readers
        BY <2>1, HolderInWord
    <3>2. Readers \ {l} # {} /\ IsFiniteSet(Readers \ {l})
        BY <3>1, FiniteReaders, FS_Subset
    <3>3. Cardinality(Readers \ {l}) # 0
        BY <3>2, FS_EmptySet
    <3> QED
        BY <2>1, <2>6, <2>7, <3>1, <3>3 DEF WordInv
  <2>12. CopyInv'
      BY <1>2, <2>3, <2>11 DEF ExitCas, TypeOK, CopyInv, ControlInv, InLock
  <2> QED
      BY <2>5, <2>8, <2>9, <2>10, <2>12
<1>3. CASE rw_owner = owner[l] /\ op[l] = "RW_WRITER"
  <2>1. /\ rw_owner.count = 0 /\ rw_owner.write_locked
        /\ rw_owner.thread = l /\ Readers = {} /\ Writers = {l}
      BY <1>3, HolderInWord DEF ExitCas, InLock
  <2>2. rw_owner' = Decr(rw_owner, "RW_WRITER")
      BY <1>3, <2>1 DEF ExitCas, ExitOp
  <2>3. /\ rw_owner' \in Word
        /\ rw_owner'.has_waiters = rw_owner.has_waiters
        /\ rw_owner'.write_wanted = rw_owner.write_wanted
        /\ ~rw_owner'.write_locked /\ rw_owner'.thread = NoLWP
        /\ rw_owner'.count = 0
      BY <2>1, <2>2, DecrWriter DEF TypeOK
  <2>4. ~rw_owner.has_waiters
      BY <1>3, <2>1, <2>2, <2>3 DEF ExitCas, MustHandOver, ExitOp, NoThread
  <2>5. TypeOK'
      BY <1>3, <2>3, UnownedFields DEF ExitCas, TypeOK, InEnter, InLock
  <2>6. Readers' = {} /\ Writers' = {}
      BY <1>3, <2>1 DEF ExitCas, TypeOK, Readers, Writers, InLock
  <2>7. WordInv'
      BY <2>3, <2>6, FS_EmptySet, LWPAssumption DEF WordInv
  <2>8. ControlInv'
      BY <1>3, LWPAssumption DEF ExitCas, TypeOK, ControlInv, Op
  <2>9. WaitersInv'
    <3>1. \A x \in LWP : pc[x] \in InEnter => pc'[x] = pc[x] /\ op'[x] = op[x]
        BY <1>3 DEF ExitCas, TypeOK, InEnter
    <3>2. sleepq' = sleepq
        BY DEF ExitCas
    <3> QED
        BY <2>3, <2>4, <3>1, <3>2, LWPAssumption DEF WaitersInv, NoThread, TypeOK
  <2>10. \A x \in LWP \ {l} : pc[x] \notin InLock
      BY <2>1 DEF Readers, Writers, ControlInv, TypeOK, InLock, Op
  <2>11. CopyInv'
      BY <1>3, <2>10 DEF ExitCas, TypeOK, CopyInv, InLock
  <2> QED
      BY <2>5, <2>7, <2>8, <2>9, <2>11
<1> QED
    BY <1>1, <1>2, <1>3 DEF ExitCas, TypeOK, ControlInv, Op

\* The compare-and-swap adds this LWP's hold; a waiting writer's
\* RW_WRITE_WANTED stays.
LEMMA TryEnterCasInv ==
    ASSUME IInv, NEW l \in LWP, TryEnterCas(l)
    PROVE  IInv'
<1> USE DEF IInv
<1>1. CASE rw_owner # owner[l]
  <2>1. TypeOK'
      BY <1>1, UnownedFields DEF TryEnterCas, TypeOK, InEnter, InLock, Op
  <2>2. Readers' = Readers /\ Writers' = Writers
      BY <1>1 DEF TryEnterCas, TypeOK, Readers, Writers, InLock, ControlInv, Op
  <2>3. WordInv'
      BY <1>1, <2>2, LWPAssumption DEF TryEnterCas, TypeOK, WordInv, InLock
  <2>4. ControlInv'
      BY <1>1, LWPAssumption DEF TryEnterCas, TypeOK, ControlInv, Op
  <2>5. WaitersInv'
      BY <1>1 DEF TryEnterCas, TypeOK, WaitersInv, InEnter, NoThread
  <2>6. CopyInv'
      BY <1>1 DEF TryEnterCas, TypeOK, CopyInv
  <2> QED
      BY <2>1, <2>3, <2>4, <2>5, <2>6
<1>2. CASE rw_owner = owner[l] /\ op[l] = "RW_READER"
  <2>1. /\ rw_owner' \in Word
        /\ ~rw_owner'.write_wanted /\ ~rw_owner.write_wanted
        /\ ~rw_owner'.write_locked /\ ~rw_owner.write_locked
        /\ rw_owner'.has_waiters = rw_owner.has_waiters
        /\ rw_owner'.thread = rw_owner.thread
        /\ rw_owner'.count = rw_owner.count + 1
        /\ rw_owner.count \in Nat
      BY <1>2, IncrReader, WordFields DEF TryEnterCas, TypeOK, NeedWait, CopyInv
  <2>2. TypeOK'
      BY <1>2, <2>1, UnownedFields DEF TryEnterCas, TypeOK, InEnter, InLock
  <2>3. Readers' = Readers \cup {l} /\ l \notin Readers /\ Writers' = Writers
      BY <1>2 DEF TryEnterCas, TypeOK, Readers, Writers, InLock
  <2>4. Cardinality(Readers') = Cardinality(Readers) + 1
      BY <2>3, FiniteReaders, FS_AddElement
  <2>5. WordInv'
      BY <1>2, <2>1, <2>3, <2>4, LWPAssumption
      DEF TryEnterCas, TypeOK, WordInv, InLock
  <2>6. ControlInv'
      BY <1>2, LWPAssumption DEF TryEnterCas, TypeOK, ControlInv, Op
  <2>7. WaitersInv'
      BY <1>2, <2>1 DEF TryEnterCas, TypeOK, WaitersInv, WordInv, NoThread
  <2>8. \A x \in LWP :
           /\ pc[x] \notin {"handover", "down_easy", "down_lookup", "downgrade"}
           /\ pc[x] = "exit" => ~MustHandOver(owner[x])
    <3> SUFFICES ASSUME NEW x \in LWP, pc[x] \in InLock
                 PROVE  /\ pc[x] \notin {"handover", "down_easy", "down_lookup",
                                         "downgrade"}
                        /\ pc[x] = "exit" => ~MustHandOver(owner[x])
        BY DEF InLock
    <3>1. op[x] = "RW_READER" /\ rw_owner.count > 0
        BY <2>1, HolderInWord
    <3>2. ~rw_owner.has_waiters
        BY <2>1, <3>1 DEF WaitersInv
    <3> QED
        BY <3>1, <3>2 DEF CopyInv, ControlInv
  <2>9. CopyInv'
      BY <1>2, <2>1, <2>8 DEF TryEnterCas, TypeOK, CopyInv
  <2> QED
      BY <2>2, <2>5, <2>6, <2>7, <2>9
<1>3. CASE rw_owner = owner[l] /\ op[l] = "RW_WRITER"
  <2>1. /\ rw_owner' \in Word
        /\ rw_owner'.write_wanted = rw_owner.write_wanted
        /\ rw_owner'.write_locked /\ ~rw_owner.write_locked
        /\ rw_owner'.has_waiters = rw_owner.has_waiters
        /\ rw_owner'.thread = l /\ rw_owner.thread = NoLWP
        /\ rw_owner'.count = 0 /\ rw_owner.count = 0
    <3>1. ~rw_owner.write_locked /\ NoThread(rw_owner)
        BY <1>3 DEF TryEnterCas, NeedWait, CopyInv
    <3>2. rw_owner' = Incr(rw_owner, l, "RW_WRITER")
        BY <1>3 DEF TryEnterCas
    <3> QED
        BY <3>1, <3>2, IncrWriter DEF TypeOK, NoThread
  <2>2. TypeOK'
      BY <1>3, <2>1, UnownedFields DEF TryEnterCas, TypeOK, InEnter, InLock
  <2>3. Readers = {} /\ Writers = {}
      BY <2>1, FiniteReaders, LWPAssumption DEF WordInv, Writers
  <2>4. Readers' = {} /\ Writers' = {l}
      BY <1>3, <2>3 DEF TryEnterCas, TypeOK, Readers, Writers, InLock
  <2>5. WordInv'
      BY <1>3, <2>1, <2>4, LWPAssumption, FS_EmptySet
      DEF TryEnterCas, TypeOK, WordInv, InLock
  <2>6. ControlInv'
      BY <1>3, LWPAssumption DEF TryEnterCas, TypeOK, ControlInv, Op
  <2>7. WaitersInv'
    <3>1. /\ sleepq' = sleepq /\ op' = op
          /\ \A x \in LWP : pc[x] \in InEnter => pc'[x] = pc[x] /\ x # l
        BY <1>3 DEF TryEnterCas, TypeOK, InEnter
    <3> QED
        BY <2>1, <3>1, LWPAssumption DEF WaitersInv, NoThread
  <2>8. \A x \in LWP : pc[x] \notin InLock
      BY <2>3 DEF Readers, Writers, ControlInv, TypeOK, InLock, Op
  <2>9. CopyInv'
      BY <1>3, <2>8 DEF TryEnterCas, TypeOK, CopyInv, InLock
  <2> QED
      BY <2>2, <2>5, <2>6, <2>7, <2>9
<1> QED
    BY <1>1, <1>2, <1>3 DEF TryEnterCas, TypeOK, ControlInv, Op

\* With no waiter the writer becomes the only reader.
LEMMA DowngradeEasyInv ==
    ASSUME IInv, NEW l \in LWP, DowngradeEasy(l)
    PROVE  IInv'
<1> USE DEF IInv
<1>1. CASE rw_owner # owner[l]
  <2>1. TypeOK'
      BY <1>1, UnownedFields DEF DowngradeEasy, TypeOK, InEnter, InLock, Op
  <2>2. Readers' = Readers /\ Writers' = Writers
      BY <1>1 DEF DowngradeEasy, TypeOK, Readers, Writers, InLock, ControlInv, Op
  <2>3. WordInv'
      BY <1>1, <2>2, LWPAssumption DEF DowngradeEasy, TypeOK, WordInv, InLock
  <2>4. ControlInv'
      BY <1>1, LWPAssumption DEF DowngradeEasy, TypeOK, ControlInv, Op
  <2>5. WaitersInv'
      BY <1>1 DEF DowngradeEasy, TypeOK, WaitersInv, InEnter, NoThread
  <2>6. CopyInv'
      BY <1>1 DEF DowngradeEasy, TypeOK, CopyInv
  <2> QED
      BY <2>1, <2>3, <2>4, <2>5, <2>6
<1>2. CASE rw_owner = owner[l]
  <2>1. /\ op[l] = "RW_WRITER" /\ rw_owner.thread = l
        /\ Readers = {} /\ Writers = {l} /\ ~rw_owner.has_waiters
      BY <1>2, HolderInWord DEF DowngradeEasy, ControlInv, CopyInv, InLock
  <2>2. /\ rw_owner' \in Word
        /\ ~rw_owner'.has_waiters /\ ~rw_owner'.write_wanted
        /\ ~rw_owner'.write_locked
        /\ rw_owner'.thread = NoLWP /\ rw_owner'.count = 1
    <3>1. rw_owner' = [Unowned EXCEPT !.count = 1]
        BY <1>2 DEF DowngradeEasy
    <3> QED
        BY <3>1, OneReaderFields
  <2>3. TypeOK'
      BY <1>2, <2>2, UnownedFields
      DEF DowngradeEasy, Downgraded, TypeOK, InEnter, InLock, Op
  <2>4. Readers' = {l} /\ Writers' = {}
      BY <1>2, <2>1
      DEF DowngradeEasy, Downgraded, TypeOK, Readers, Writers, InLock
  <2>5. WordInv'
      BY <2>2, <2>4, FS_Singleton, LWPAssumption DEF WordInv
  <2>6. ControlInv'
      BY <1>2, LWPAssumption DEF DowngradeEasy, Downgraded, TypeOK, ControlInv, Op
  <2>7. WaitersInv'
      BY <1>2, <2>1, <2>2 DEF DowngradeEasy, TypeOK, WaitersInv, NoThread
  <2>8. \A x \in LWP \ {l} : pc[x] \notin InLock
      BY <2>1 DEF Readers, Writers, ControlInv, TypeOK, InLock, Op
  <2>9. CopyInv'
      BY <1>2, <2>8 DEF DowngradeEasy, Downgraded, TypeOK, CopyInv, InLock
  <2> QED
      BY <2>3, <2>5, <2>6, <2>7, <2>9
<1> QED
    BY <1>1, <1>2

\* The only reader becomes the writer; the waiter bits stay.
LEMMA TryUpgradeInv ==
    ASSUME IInv, NEW l \in LWP, TryUpgrade(l)
    PROVE  IInv'
<1> USE DEF IInv
<1>1. CASE rw_owner # owner[l] \/ owner[l].count # 1
  <2>1. TypeOK'
      BY <1>1, UnownedFields DEF TryUpgrade, TypeOK, InEnter, InLock, Op
  <2>2. Readers' = Readers /\ Writers' = Writers
      BY <1>1 DEF TryUpgrade, TypeOK, Readers, Writers, InLock, ControlInv, Op
  <2>3. WordInv'
      BY <1>1, <2>2, LWPAssumption DEF TryUpgrade, TypeOK, WordInv, InLock
  <2>4. ControlInv'
      BY <1>1, LWPAssumption DEF TryUpgrade, TypeOK, ControlInv, Op
  <2>5. WaitersInv'
      BY <1>1 DEF TryUpgrade, TypeOK, WaitersInv, InEnter, NoThread
  <2>6. CopyInv'
      BY <1>1 DEF TryUpgrade, TypeOK, CopyInv
  <2> QED
      BY <2>1, <2>3, <2>4, <2>5, <2>6
<1>2. CASE rw_owner = owner[l] /\ owner[l].count = 1
  <2>1. /\ op[l] = "RW_READER" /\ l \in Readers /\ Writers = {}
      BY HolderInWord DEF TryUpgrade, ControlInv, InLock
  <2>2. Readers = {l}
    <3>1. Cardinality(Readers) = 1
        BY <1>2 DEF WordInv
    <3>3. Cardinality(Readers \ {l}) = 0
        BY <2>1, <3>1, FiniteReaders, FS_RemoveElement
    <3>2. Readers \ {l} = {}
        BY <3>3, FiniteReaders, FS_Subset, FS_EmptySet
    <3> QED
        BY <2>1, <3>2
  <2>3. /\ rw_owner' \in Word
        /\ rw_owner'.has_waiters = rw_owner.has_waiters
        /\ rw_owner'.write_wanted = rw_owner.write_wanted
        /\ rw_owner'.write_locked
        /\ rw_owner'.thread = l /\ rw_owner'.count = 0
    <3>1. /\ rw_owner \in Word
          /\ rw_owner' = [rw_owner EXCEPT !.write_locked = TRUE, !.thread = l,
                                          !.count = 0]
        BY <1>2 DEF TryUpgrade, TypeOK
    <3> QED
        BY <3>1, UpgradedFields
  <2>4. TypeOK'
      BY <1>2, <2>3, UnownedFields DEF TryUpgrade, TypeOK, InEnter, InLock, Op
  <2>5. Readers' = {} /\ Writers' = {l}
      BY <1>2, <2>1, <2>2 DEF TryUpgrade, TypeOK, Readers, Writers, InLock
  <2>6. WordInv'
      BY <1>2, <2>3, <2>5, FS_EmptySet, LWPAssumption
      DEF TryUpgrade, TypeOK, WordInv, InLock
  <2>7. ControlInv'
      BY <1>2, LWPAssumption DEF TryUpgrade, TypeOK, ControlInv, Op
  <2>8. WaitersInv'
    <3>1. sleepq' = sleepq
        BY DEF TryUpgrade
    <3>2. rw_owner'.write_wanted => sleepq["TS_WRITER_Q"] # {}
        BY <1>2, <2>3 DEF WaitersInv
    <3> QED
        BY <2>3, <3>1, <3>2, LWPAssumption DEF WaitersInv, NoThread
  <2>9. \A x \in LWP \ {l} : pc[x] \notin InLock
      BY <2>1, <2>2 DEF Readers, Writers, ControlInv, TypeOK, InLock, Op
  <2>10. CopyInv'
      BY <1>2, <2>9 DEF TryUpgrade, TypeOK, CopyInv, InLock
  <2> QED
      BY <2>4, <2>6, <2>7, <2>8, <2>10
<1> QED
    BY <1>1, <1>2

-----------------------------------------------------------------------------
(***************************************************************************)
(* The hand-overs.  The LWP that hands over is alone in the lock.          *)
(***************************************************************************)

\* Under the chain lock, an LWP handing the lock over is its only holder.
LEMMA SoleHolder ==
    ASSUME IInv, NEW l \in LWP, pc[l] \in {"handover", "downgrade"}
    PROVE  /\ tc_mutex = l /\ rw_owner.has_waiters
           /\ \A x \in LWP \ {l} : pc[x] \notin InLock
           /\ \A x \in LWP : pc[x] = "awake" => op[x] # "RW_READER"
           /\ op[l] = "RW_READER" => sleepq["TS_WRITER_Q"] # {}
           /\ op[l] \in Op
<1> USE DEF IInv
<1>1. tc_mutex = l /\ rw_owner.has_waiters /\ op[l] \in Op
    BY DEF ControlInv, CopyInv, TypeOK, Op
<1>2. Readers \cup Writers = {l}
  <2>1. CASE op[l] = "RW_WRITER"
      BY <2>1, HolderInWord DEF InLock
  <2>2. CASE op[l] = "RW_READER"
    <3>1. Cardinality(Readers) = 1 /\ l \in Readers /\ Writers = {}
      <4>1. rw_owner.count = 1
          BY <2>2 DEF CopyInv, ControlInv
      <4>2. l \in Readers /\ Writers = {}
          BY <2>2, HolderInWord DEF InLock
      <4> QED
          BY <4>1, <4>2 DEF WordInv
    <3>2. Cardinality(Readers \ {l}) = 0
      <4>1. Cardinality(Readers \ {l}) = Cardinality(Readers) - 1
          BY <3>1, FiniteReaders, FS_RemoveElement
      <4> QED
          BY <3>1, <4>1
    <3>3. Readers \ {l} = {}
        BY <3>2, FiniteReaders, FS_Subset, FS_EmptySet
    <3> QED
        BY <3>1, <3>3
  <2> QED
      BY <1>1, <2>1, <2>2 DEF Op
<1>3. \A x \in LWP \ {l} : pc[x] \notin InLock
    BY <1>2 DEF Readers, Writers, ControlInv, TypeOK, InLock, Op
<1>4. \A x \in LWP : pc[x] = "awake" => op[x] # "RW_READER"
    BY <1>2 DEF Readers
<1>5. op[l] = "RW_READER" => sleepq["TS_WRITER_Q"] # {}
    BY <1>1, HolderInWord DEF InLock, WaitersInv
<1> QED
    BY <1>1, <1>3, <1>4, <1>5

\* Only writers sleep: the writer becomes the only reader, they stay announced.
LEMMA DowngradeAloneInv ==
    ASSUME IInv, NEW l \in LWP, DowngradeAlone(l)
    PROVE  IInv'
<1> USE DEF IInv
<1>1. /\ pc[l] = "downgrade" /\ op[l] = "RW_WRITER" /\ tc_mutex = l
      /\ rw_owner.has_waiters
      /\ \A x \in LWP \ {l} : pc[x] \notin InLock
      /\ \A x \in LWP : pc[x] = "awake" => op[x] # "RW_READER"
    BY SoleHolder DEF DowngradeAlone, ControlInv
<1>2. sleepq' = sleepq /\ sleepq["TS_WRITER_Q"] # {}
    BY <1>1, WaitersCount DEF DowngradeAlone, WaitersInv
<1>3. /\ rw_owner' \in Word
      /\ rw_owner'.has_waiters /\ rw_owner'.write_wanted
      /\ ~rw_owner'.write_locked
      /\ rw_owner'.thread = NoLWP /\ rw_owner'.count = 1
    BY DEF DowngradeAlone, Word
<1>4. TypeOK'
    BY <1>3, UnownedFields
    DEF DowngradeAlone, Downgraded, TypeOK, InEnter, InLock, Op
<1>5. Readers' = {l} /\ Writers' = {}
    BY <1>1 DEF DowngradeAlone, Downgraded, TypeOK, Readers, Writers, InLock
<1>6. WordInv'
    BY <1>3, <1>5, FS_Singleton, LWPAssumption DEF WordInv
<1>7. ControlInv'
    BY LWPAssumption DEF DowngradeAlone, Downgraded, TypeOK, ControlInv, Op
<1>8. WaitersInv'
    BY <1>2, <1>3 DEF WaitersInv, NoThread
<1>9. CopyInv'
    BY <1>1 DEF DowngradeAlone, Downgraded, TypeOK, CopyInv, InLock
<1> QED
    BY <1>4, <1>6, <1>7, <1>8, <1>9

\* The sleeping readers and the downgraded writer share the lock.
LEMMA DowngradeToReadersInv ==
    ASSUME IInv, NEW l \in LWP, DowngradeToReaders(l)
    PROVE  IInv'
<1> USE DEF IInv
<1> DEFINE R == sleepq["TS_READER_Q"]
           W == sleepq["TS_WRITER_Q"]
<1>1. /\ pc[l] = "downgrade" /\ op[l] = "RW_WRITER" /\ tc_mutex = l
      /\ \A x \in LWP \ {l} : pc[x] \notin InLock
      /\ \A x \in LWP : pc[x] = "awake" => op[x] # "RW_READER"
    BY SoleHolder DEF DowngradeToReaders, ControlInv
<1>2. /\ R \subseteq LWP /\ W \subseteq LWP /\ l \notin R
      /\ \A x \in LWP : x \in R <=> pc[x] = "asleep" /\ op[x] = "RW_READER"
      /\ sleepq'["TS_READER_Q"] = {} /\ sleepq'["TS_WRITER_Q"] = W
    BY <1>1 DEF DowngradeToReaders, TurnstileWakeup, ControlInv, TypeOK
<1>3. /\ rw_owner' \in Word
      /\ rw_owner'.has_waiters <=> W # {}
      /\ rw_owner'.write_wanted <=> W # {}
      /\ ~rw_owner'.write_locked /\ rw_owner'.thread = NoLWP
      /\ rw_owner'.count = Cardinality(R) + 1 /\ Cardinality(R) \in Nat
  <2>1. /\ TS_WAITERS("TS_READER_Q") = Cardinality(R) /\ Cardinality(R) \in Nat
        /\ TS_WAITERS("TS_WRITER_Q") # 0 <=> W # {}
      BY WaitersCount DEF TS_WAITERS
  <2>2. rw_owner' = HandToReaders(1)
      BY DEF DowngradeToReaders
  <2> QED
      BY <2>1, <2>2, HandToReadersFields
<1>4. TypeOK'
    BY <1>1, <1>2, <1>3, UnownedFields DEF DowngradeToReaders, TurnstileWakeup,
       ReturnAndWake, Downgraded, TypeOK, InEnter, InLock, Op
<1>5. Readers' = R \cup {l} /\ Writers' = {}
    BY <1>1, <1>2 DEF DowngradeToReaders, ReturnAndWake, Downgraded, TypeOK,
       Readers, Writers, InLock
<1>6. Cardinality(Readers') = Cardinality(R) + 1
    BY <1>2, <1>5, WaitersCount, FS_AddElement
<1>7. WordInv'
    BY <1>3, <1>5, <1>6, LWPAssumption DEF WordInv
<1>8. ControlInv'
    BY <1>1, <1>2, LWPAssumption DEF DowngradeToReaders, TurnstileWakeup,
       ReturnAndWake, Downgraded, TypeOK, ControlInv, Op
<1>9. WaitersInv'
    BY <1>2, <1>3 DEF WaitersInv, NoThread
<1>10. CopyInv'
    BY <1>1, <1>2
    DEF DowngradeToReaders, ReturnAndWake, Downgraded, TypeOK, CopyInv, InLock
<1> QED
    BY <1>4, <1>7, <1>8, <1>9, <1>10

\* A writer releases the lock to every sleeping reader.
LEMMA ExitToReadersInv ==
    ASSUME IInv, NEW l \in LWP, ExitToReaders(l)
    PROVE  IInv'
<1> USE DEF IInv
<1> DEFINE R == sleepq["TS_READER_Q"]
           W == sleepq["TS_WRITER_Q"]
<1>1. /\ pc[l] = "handover" /\ tc_mutex = l
      /\ \A x \in LWP \ {l} : pc[x] \notin InLock
      /\ \A x \in LWP : pc[x] = "awake" => op[x] # "RW_READER"
    BY SoleHolder DEF ExitToReaders
<1>2. /\ R \subseteq LWP /\ W \subseteq LWP /\ l \notin R
      /\ \A x \in LWP : x \in R <=> pc[x] = "asleep" /\ op[x] = "RW_READER"
      /\ sleepq'["TS_READER_Q"] = {} /\ sleepq'["TS_WRITER_Q"] = W
    BY <1>1 DEF ExitToReaders, TurnstileWakeup, ControlInv, TypeOK
<1>3. /\ rw_owner' \in Word
      /\ rw_owner'.has_waiters <=> W # {}
      /\ rw_owner'.write_wanted <=> W # {}
      /\ ~rw_owner'.write_locked /\ rw_owner'.thread = NoLWP
      /\ rw_owner'.count = Cardinality(R)
      /\ Cardinality(R) \in Nat /\ Cardinality(R) # 0
  <2>1. /\ TS_WAITERS("TS_READER_Q") = Cardinality(R) /\ Cardinality(R) \in Nat
        /\ TS_WAITERS("TS_WRITER_Q") # 0 <=> W # {}
      BY WaitersCount DEF TS_WAITERS
  <2>2. rw_owner' = HandToReaders(0) /\ TS_WAITERS("TS_READER_Q") # 0
      BY DEF ExitToReaders, WakeWriters
  <2> QED
      BY <2>1, <2>2, HandToReadersFields
<1>4. TypeOK'
    BY <1>1, <1>2, <1>3, UnownedFields DEF ExitToReaders, TurnstileWakeup,
       ReturnAndWake, TypeOK, InEnter, InLock, Op
<1>5. Readers' = R /\ Writers' = {}
    BY <1>1, <1>2 DEF ExitToReaders, ReturnAndWake, TypeOK, Readers, Writers, InLock
<1>6. WordInv'
    BY <1>3, <1>5, LWPAssumption DEF WordInv
<1>7. ControlInv'
    BY <1>1, <1>2, LWPAssumption DEF ExitToReaders, TurnstileWakeup,
       ReturnAndWake, TypeOK, ControlInv, Op
<1>8. WaitersInv'
    BY <1>2, <1>3 DEF WaitersInv, NoThread
<1>9. CopyInv'
    BY <1>1, <1>2 DEF ExitToReaders, ReturnAndWake, TypeOK, CopyInv, InLock
<1> QED
    BY <1>4, <1>6, <1>7, <1>8, <1>9

\* Every sleeping writer is woken and the lock left free, but wanted.
LEMMA ExitToWritersInv ==
    ASSUME IInv, NEW l \in LWP, ExitToWriters(l)
    PROVE  IInv'
<1> USE DEF IInv
<1> DEFINE W == sleepq["TS_WRITER_Q"]
<1>1. /\ pc[l] = "handover" /\ tc_mutex = l /\ rw_owner.has_waiters
      /\ \A x \in LWP \ {l} : pc[x] \notin InLock
      /\ \A x \in LWP : pc[x] = "awake" => op[x] # "RW_READER"
    BY SoleHolder DEF ExitToWriters
<1>2. /\ W \subseteq LWP /\ l \notin W
      /\ \A x \in LWP : x \in W <=> pc[x] = "asleep" /\ op[x] = "RW_WRITER"
      /\ sleepq'["TS_READER_Q"] = {} /\ sleepq'["TS_WRITER_Q"] = {}
      /\ sleepq["TS_READER_Q"] = {} /\ W # {}
    BY <1>1, WaitersCount
    DEF ExitToWriters, TurnstileWakeup, ControlInv, WaitersInv, TypeOK
<1>3. /\ rw_owner' \in Word
      /\ ~rw_owner'.has_waiters /\ rw_owner'.write_wanted
      /\ ~rw_owner'.write_locked
      /\ rw_owner'.thread = NoLWP /\ rw_owner'.count = 0
  <2>1. rw_owner' = [Unowned EXCEPT !.write_wanted = TRUE]
      BY DEF ExitToWriters
  <2> QED
      BY <2>1, WantedFields
<1>4. TypeOK'
    BY <1>1, <1>2, <1>3, UnownedFields DEF ExitToWriters, TurnstileWakeup,
       ReturnAndWake, TypeOK, InEnter, InLock, Op
<1>5. Readers' = {} /\ Writers' = {}
    BY <1>1, <1>2 DEF ExitToWriters, ReturnAndWake, TypeOK, Readers, Writers, InLock
<1>6. WordInv'
    BY <1>3, <1>5, FS_EmptySet, LWPAssumption DEF WordInv
<1>7. ControlInv'
    BY <1>1, <1>2, LWPAssumption DEF ExitToWriters, TurnstileWakeup,
       ReturnAndWake, TypeOK, ControlInv, Op
<1>8. \E x \in LWP : op'[x] = "RW_WRITER" /\ pc'[x] = "awake"
    BY <1>1, <1>2 DEF ExitToWriters, ReturnAndWake, TypeOK
<1>9. WaitersInv'
    BY <1>2, <1>3, <1>8, LWPAssumption DEF WaitersInv, NoThread, InEnter
<1>10. CopyInv'
    BY <1>1, <1>2 DEF ExitToWriters, ReturnAndWake, TypeOK, CopyInv, InLock
<1> QED
    BY <1>4, <1>6, <1>7, <1>9, <1>10

\* The last reader hands the lock to one sleeping writer; the sleeping readers
\* stay asleep and stay announced.
LEMMA ExitToWriterInv ==
    ASSUME IInv, NEW l \in LWP, ExitToWriter(l)
    PROVE  IInv'
<1> USE DEF IInv
<1> DEFINE R == sleepq["TS_READER_Q"]
           W == sleepq["TS_WRITER_Q"]
<1>1. /\ pc[l] = "handover" /\ tc_mutex = l
      /\ \A y \in LWP \ {l} : pc[y] \notin InLock
      /\ \A y \in LWP : pc[y] = "awake" => op[y] # "RW_READER"
      /\ R # {}
    BY SoleHolder, WaitersCount DEF ExitToWriter
<1>2. PICK x \in W : /\ rw_owner' = HandToWriter(x)
                     /\ TurnstileWakeup("TS_WRITER_Q", {x})
                     /\ ReturnAndWake(l, "idle", {x})
    BY DEF ExitToWriter
<1>3. /\ x \in LWP /\ x # l
      /\ pc[x] = "asleep" /\ op[x] = "RW_WRITER"
      /\ sleepq'["TS_READER_Q"] = R /\ sleepq'["TS_WRITER_Q"] = W \ {x}
    BY <1>1, <1>2 DEF TurnstileWakeup, ControlInv, TypeOK
<1>4. W \ {x} # {} <=> TS_WAITERS("TS_WRITER_Q") > 1
  <2>1. IsFiniteSet(W) /\ IsFiniteSet(W \ {x})
      BY WaitersCount, FS_Subset
  <2>2. Cardinality(W \ {x}) = Cardinality(W) - 1 /\ Cardinality(W) \in Nat
      BY <1>2, <2>1, FS_RemoveElement, FS_CardinalityType
  <2>3. Cardinality(W \ {x}) = 0 <=> W \ {x} = {}
      BY <2>1, FS_EmptySet
  <2>4. Cardinality(W \ {x}) \in Nat
      BY <2>1, FS_CardinalityType
  <2> QED
      BY <2>2, <2>3, <2>4 DEF TS_WAITERS
<1>5. /\ rw_owner' \in Word
      /\ rw_owner'.has_waiters /\ rw_owner'.write_locked
      /\ rw_owner'.write_wanted <=> W \ {x} # {}
      /\ rw_owner'.thread = x /\ rw_owner'.count = 0
    BY <1>2, <1>3, <1>4, HandToWriterFields
<1>6. TypeOK'
    BY <1>1, <1>2, <1>3, <1>5, UnownedFields DEF ExitToWriter, TurnstileWakeup,
       ReturnAndWake, TypeOK, InEnter, InLock, Op
<1>7. Readers' = {} /\ Writers' = {}
    BY <1>1, <1>2, <1>3
    DEF ExitToWriter, ReturnAndWake, TypeOK, Readers, Writers, InLock
<1>8. op'[x] = "RW_WRITER" /\ pc'[x] = "awake"
    BY <1>2, <1>3 DEF ExitToWriter, ReturnAndWake, TypeOK
<1>9. WordInv'
    BY <1>3, <1>5, <1>7, <1>8, FS_EmptySet, LWPAssumption DEF WordInv
<1>10. ControlInv'
    BY <1>1, <1>2, <1>3, LWPAssumption DEF ExitToWriter, TurnstileWakeup,
       ReturnAndWake, TypeOK, ControlInv, Op
<1>11. WaitersInv'
    BY <1>1, <1>3, <1>5, LWPAssumption DEF WaitersInv, NoThread
<1>12. CopyInv'
    BY <1>1, <1>2, <1>3 DEF ExitToWriter, ReturnAndWake, TypeOK, CopyInv, InLock
<1> QED
    BY <1>6, <1>9, <1>10, <1>11, <1>12

-----------------------------------------------------------------------------
(***************************************************************************)
(* The theorems.                                                           *)
(***************************************************************************)

\* Every step, and stuttering, preserves IInv.
LEMMA IInvInductive == IInv /\ [Next]_vars => IInv'
<1> SUFFICES ASSUME IInv, [Next]_vars PROVE IInv'
    OBVIOUS
<1>1. CASE UNCHANGED vars
    BY <1>1 DEF vars, IInv, TypeOK, WordInv, ControlInv, WaitersInv, CopyInv,
       Readers, Writers
<1>2. ASSUME NEW l \in LWP, Calls(l) PROVE IInv'
    BY <1>2, EnterCallInv, TryEnterCallInv, ExitCallInv, DowngradeCallInv,
       TryUpgradeCallInv
    DEF Calls
<1>3. ASSUME NEW l \in LWP, Runs(l) PROVE IInv'
    BY <1>3,
       EnterCasInv, EnterWaitInv, EnterSpinInv, EnterLookupRetryInv,
       EnterLookupInv, EnterBlockInv, EnterAwakeInv, ExitCasInv,
       ExitLookupInv, ExitToWriterInv, ExitToWritersInv, ExitToReadersInv,
       TryEnterCasInv, DowngradeEasyInv, DowngradeLookupInv,
       DowngradeAloneInv, DowngradeToReadersInv, DowngradeRetryInv,
       TryUpgradeInv
    DEF Runs
<1> QED
    BY <1>1, <1>2, <1>3 DEF Next

\* The lock's invariant holds in every reachable state, for any number of LWPs
\* and whether or not the kernel spins on a running owner.
THEOREM Invariance == Spec => []IInv
<1>1. Init => IInv
    BY InitIInv
<1>2. IInv /\ [Next]_vars => IInv'
    BY IInvInductive
<1> QED
    BY <1>1, <1>2, PTL DEF Spec

\* Types, for any finite set of LWPs.
THEOREM TypeCorrect == Spec => []TypeOK
<1>1. IInv => TypeOK
    BY DEF IInv
<1> QED
    BY <1>1, Invariance, PTL

\* A write hold of rw_enter(), rw_tryenter() or rw_tryupgrade() excludes every
\* other hold, including those handed over to LWPs that still sleep.
THEOREM Exclusion == Spec => []MutualExclusion
<1>1. IInv => MutualExclusion
  <2> SUFFICES ASSUME IInv, NEW l \in Writers
               PROVE  Writers = {l} /\ Readers = {}
      BY DEF MutualExclusion
  <2>1. l \in LWP /\ pc[l] \in InLock /\ op[l] = "RW_WRITER"
      BY DEF Writers
  <2> QED
      BY <2>1, HolderInWord
<1> QED
    BY <1>1, Invariance, PTL

\* rw_owner counts the read holds exactly and names the writer.
THEOREM Accounting == Spec => []HoldsAreCounted
<1>1. IInv => HoldsAreCounted
    BY DEF IInv, WordInv, HoldsAreCounted
<1> QED
    BY <1>1, Invariance, PTL

\* No LWP sleeps in a turnstile without the lock word saying so to an LWP that
\* will still pass through rw_exit() or rw_downgrade().
THEOREM NobodyForgotten == Spec => []NoSleeperUnseen
<1>1. IInv => NoSleeperUnseen
    BY DEF IInv, WaitersInv, NoSleeperUnseen
<1> QED
    BY <1>1, Invariance, PTL

\* The RW_DASSERT()s and KASSERT()s of the hand-over code never fail.
THEOREM AssertionsHold == Spec => []HandoverAssertions
<1>1. IInv => HandoverAssertions
  <2> SUFFICES ASSUME IInv, NEW l \in LWP
               PROVE
                  /\ pc[l] = "handover" => rw_owner = owner[l]
                  /\ pc[l] \in {"handover", "downgrade"} =>
                        /\ rw_owner.has_waiters
                        /\ sleepq["TS_READER_Q"] = {} =>
                              sleepq["TS_WRITER_Q"] # {} /\ rw_owner.write_wanted
      BY DEF HandoverAssertions
  <2> QED
      BY DEF IInv, CopyInv, WaitersInv
<1> QED
    BY <1>1, Invariance, PTL

-----------------------------------------------------------------------------
(***************************************************************************)
(* The lock implements the abstract one: every step of the code is one of  *)
(* its steps, or changes nothing that its users see.                       *)
(***************************************************************************)

\* A word that names no writer has none, and one that counts no hold has no
\* readers.
LEMMA FreeWord ==
    ASSUME IInv
    PROVE  /\ rw_owner.thread = NoLWP => Writers = {}
           /\ rw_owner.count = 0 => Readers = {}
           /\ ~rw_owner.write_locked => rw_owner.thread = NoLWP
           /\ rw_owner.write_locked => rw_owner.count = 0
BY FiniteReaders, LWPAssumption DEF IInv, WordInv, Writers

\* Among the holders counted once there is only one reader.
LEMMA OneReader ==
    ASSUME IInv, rw_owner.count = 1, NEW l \in Readers
    PROVE  Readers = {l}
<1>1. IsFiniteSet(Readers) /\ Cardinality(Readers) = 1
    BY FiniteReaders DEF IInv, WordInv
<1>2. Cardinality(Readers \ {l}) = 0 /\ IsFiniteSet(Readers \ {l})
    BY <1>1, FS_RemoveElement
<1> QED
    BY <1>2, FS_EmptySet

\* An LWP that is let in becomes a holder, of the kind it asked for.
LEMMA LetIn ==
    ASSUME IInv, NEW l \in LWP, pc[l] \notin InLock \cup {"awake"},
           op[l] \in Op, ~NeedWait(rw_owner, op[l]),
           pc' = [pc EXCEPT ![l] = "held"], op' = op
    PROVE  Lock!Next
<1> USE DEF IInv, TypeOK
<1>1. CASE op[l] = "RW_READER"
  <2>1. Writers = {} /\ l \notin Readers
      BY <1>1, FreeWord DEF NeedWait, Readers
  <2>2. Readers' = Readers \cup {l} /\ Writers' = Writers
      BY <1>1 DEF Readers, Writers, InLock
  <2>3. Lock!EnterRead(l)
      BY <2>1, <2>2 DEF Lock!EnterRead
  <2> QED
      BY <2>3 DEF Lock!Next
<1>2. CASE op[l] = "RW_WRITER"
  <2>1. Writers = {} /\ Readers = {}
      BY <1>2, FreeWord DEF NeedWait, NoThread
  <2>2. Readers' = Readers /\ Writers' = {l}
      BY <1>2, <2>1 DEF Readers, Writers, InLock
  <2>3. Lock!EnterWrite(l)
      BY <2>1, <2>2 DEF Lock!EnterWrite
  <2> QED
      BY <2>3 DEF Lock!Next
<1> QED
    BY <1>1, <1>2 DEF Op

\* A writer woken by a hand-over finds the word its own and nobody in.
LEMMA HandedOver ==
    ASSUME IInv, NEW l \in LWP, EnterAwake(l)
    PROVE  Lock!Next \/ UNCHANGED <<Readers, Writers>>
<1> USE DEF IInv, TypeOK
<1>1. CASE op[l] = "RW_READER"
    BY <1>1 DEF EnterAwake, Readers, Writers, InLock
<1>2. CASE op[l] = "RW_WRITER" /\ rw_owner.thread = l
  <2>1. pc[l] = "awake" /\ pc' = [pc EXCEPT ![l] = "held"] /\ op' = op
      BY <1>2 DEF EnterAwake
  <2>2. Writers = {}
      BY <1>2, <2>1 DEF WordInv, Writers, InLock
  <2>3. Readers = {}
      BY <1>2, FreeWord, LWPAssumption DEF WordInv
  <2>4. Readers' = {} /\ Writers' = {l}
      BY <1>2, <2>1, <2>2, <2>3 DEF Readers, Writers, InLock
  <2>5. Lock!EnterWrite(l)
      BY <2>2, <2>3, <2>4 DEF Lock!EnterWrite
  <2> QED
      BY <2>5 DEF Lock!Next
<1>3. CASE op[l] = "RW_WRITER" /\ rw_owner.thread # l
    BY <1>3 DEF EnterAwake, Readers, Writers, InLock
<1> QED
    BY <1>1, <1>2, <1>3 DEF EnterAwake, ControlInv, Op

\* A holder that goes leaves the lock to the readers in S, which are none if
\* others read on.
LEMMA LetOut ==
    ASSUME IInv, NEW l \in LWP, pc[l] \in InLock,
           NEW S \in SUBSET (LWP \ {l}),
           op[l] = "RW_READER" => S = {} \/ Readers = {l},
           Readers' = (Readers \ {l}) \cup S, Writers' = Writers \ {l}
    PROVE  Lock!Next
<1>1. CASE op[l] = "RW_WRITER"
  <2>1. Readers = {} /\ Writers = {l}
      BY <1>1, HolderInWord
  <2>2. Lock!ExitWrite(l, S)
      BY <2>1 DEF Lock!ExitWrite
  <2> QED
      BY <2>2 DEF Lock!Next
<1>2. CASE op[l] = "RW_READER"
  <2>1. l \in Readers /\ Writers = {}
      BY <1>2, HolderInWord
  <2>2. Lock!ExitRead(l, S)
      BY <1>2, <2>1 DEF Lock!ExitRead
  <2> QED
      BY <2>2 DEF Lock!Next
<1> QED
    BY <1>1, <1>2, HolderInWord

\* rw_exit(): without a hand-over, or with one to a writer, to all the writers
\* or to all the readers that sleep.
LEMMA Exits ==
    ASSUME IInv, NEW l \in LWP,
           \/ ExitCas(l) \/ ExitToWriter(l) \/ ExitToWriters(l)
           \/ ExitToReaders(l)
    PROVE  Lock!Next \/ UNCHANGED <<Readers, Writers>>
<1> USE DEF IInv, TypeOK
<1>1. CASE ExitCas(l) /\ rw_owner = owner[l]
  <2>1. /\ pc[l] = "exit" /\ pc' = [pc EXCEPT ![l] = "idle"]
        /\ op' = [op EXCEPT ![l] = "none"]
      BY <1>1 DEF ExitCas
  <2> DEFINE none == {}
  <2>2. Readers' = (Readers \ {l}) \cup none /\ Writers' = Writers \ {l}
      BY <2>1 DEF Readers, Writers, InLock
  <2>3. none \in SUBSET (LWP \ {l}) /\ none = {}
      OBVIOUS
  <2> HIDE DEF none
  <2> QED
      BY <2>1, <2>2, <2>3, LetOut DEF InLock
<1>2. CASE ExitCas(l) /\ rw_owner # owner[l]
    BY <1>2 DEF ExitCas, Readers, Writers, InLock
<1>3. CASE ExitToWriter(l) \/ ExitToWriters(l)
  <2>1. PICK S \in SUBSET sleepq["TS_WRITER_Q"] :
           /\ pc[l] = "handover" /\ ReturnAndWake(l, "idle", S)
           /\ op' = [op EXCEPT ![l] = "none"]
      BY <1>3 DEF ExitToWriter, ExitToWriters
  <2>2. \A x \in S : x \in LWP /\ pc[x] = "asleep" /\ op[x] = "RW_WRITER"
      BY <2>1 DEF ControlInv
  <2> DEFINE none == {}
  <2>3. Readers' = (Readers \ {l}) \cup none /\ Writers' = Writers \ {l}
      BY <2>1, <2>2 DEF ReturnAndWake, Readers, Writers, InLock
  <2>4. none \in SUBSET (LWP \ {l}) /\ none = {}
      OBVIOUS
  <2> HIDE DEF none
  <2> QED
      BY <2>1, <2>3, <2>4, LetOut DEF InLock
<1>4. CASE ExitToReaders(l)
  <2> DEFINE S == sleepq["TS_READER_Q"]
  <2>1. /\ pc[l] = "handover" /\ ReturnAndWake(l, "idle", S)
        /\ op' = [op EXCEPT ![l] = "none"]
      BY <1>4 DEF ExitToReaders
  <2>2. S \subseteq LWP
        /\ \A x \in S : pc[x] = "asleep" /\ op[x] = "RW_READER"
      BY DEF ControlInv
  <2>3. Readers' = (Readers \ {l}) \cup S /\ Writers' = Writers \ {l}
      BY <2>1, <2>2 DEF ReturnAndWake, Readers, Writers, InLock
  <2>4. op[l] = "RW_READER" => Readers = {l}
    <3> SUFFICES ASSUME op[l] = "RW_READER" PROVE Readers = {l}
        OBVIOUS
    <3>1. l \in Readers /\ rw_owner.count = 1
        BY <2>1 DEF CopyInv, Readers, InLock
    <3> QED
        BY <3>1, OneReader
  <2>5. S \in SUBSET (LWP \ {l})
      BY <2>1, <2>2
  <2> HIDE DEF S
  <2> QED
      BY <2>1, <2>3, <2>4, <2>5, LetOut DEF InLock
<1> QED
    BY <1>1, <1>2, <1>3, <1>4

\* rw_downgrade(): the writer becomes a reader, alone or with those that
\* sleep.
LEMMA Downgrades ==
    ASSUME IInv, NEW l \in LWP,
           DowngradeEasy(l) \/ DowngradeAlone(l) \/ DowngradeToReaders(l)
    PROVE  Lock!Next \/ UNCHANGED <<Readers, Writers>>
<1> USE DEF IInv, TypeOK
<1>0. Readers = {} /\ Writers = {l}
    BY HolderInWord
    DEF DowngradeEasy, DowngradeAlone, DowngradeToReaders, ControlInv, InLock
<1>1. CASE DowngradeEasy(l) /\ rw_owner # owner[l]
    BY <1>1 DEF DowngradeEasy, Readers, Writers, InLock
<1>2. CASE \/ DowngradeEasy(l) /\ rw_owner = owner[l]
           \/ DowngradeAlone(l)
  <2>1. /\ pc' = [pc EXCEPT ![l] = "held"]
        /\ op' = [op EXCEPT ![l] = "RW_READER"]
      BY <1>2 DEF DowngradeEasy, DowngradeAlone, Downgraded
  <2>2. Readers' = {l} \cup {} /\ Writers' = {}
      BY <1>0, <2>1 DEF Readers, Writers, InLock
  <2>3. Lock!Downgrade(l, {})
      BY <1>0, <2>2 DEF Lock!Downgrade
  <2> QED
      BY <2>3 DEF Lock!Next
<1>3. CASE DowngradeToReaders(l)
  <2> DEFINE S == sleepq["TS_READER_Q"]
  <2>1. /\ pc[l] = "downgrade" /\ ReturnAndWake(l, "held", S)
        /\ op' = [op EXCEPT ![l] = "RW_READER"]
      BY <1>3 DEF DowngradeToReaders, Downgraded
  <2>2. S \subseteq LWP
        /\ \A x \in S : pc[x] = "asleep" /\ op[x] = "RW_READER"
      BY DEF ControlInv
  <2>3. Readers' = {l} \cup S /\ Writers' = {}
      BY <1>0, <2>1, <2>2 DEF ReturnAndWake, Readers, Writers, InLock
  <2>4. S \in SUBSET (LWP \ {l})
      BY <2>1, <2>2
  <2> HIDE DEF S
  <2>5. Lock!Downgrade(l, S)
      BY <1>0, <2>3 DEF Lock!Downgrade
  <2> QED
      BY <2>4, <2>5 DEF Lock!Next
<1> QED
    BY <1>1, <1>2, <1>3

\* rw_tryupgrade(): the only reader becomes the writer, or nothing happens.
LEMMA Upgrades ==
    ASSUME IInv, NEW l \in LWP, TryUpgrade(l)
    PROVE  Lock!Next \/ UNCHANGED <<Readers, Writers>>
<1> USE DEF IInv, TypeOK
<1>1. pc[l] = "upgrade" /\ op[l] = "RW_READER"
    BY DEF TryUpgrade, ControlInv
<1>2. CASE owner[l].count = 1 /\ rw_owner = owner[l]
  <2>1. /\ pc' = [pc EXCEPT ![l] = "held"]
        /\ op' = [op EXCEPT ![l] = "RW_WRITER"]
      BY <1>2 DEF TryUpgrade
  <2>2. l \in Readers /\ Writers = {}
      BY <1>1, HolderInWord DEF InLock
  <2>3. Readers = {l}
      BY <1>2, <2>2, OneReader
  <2>4. Readers' = {} /\ Writers' = {l}
      BY <2>1, <2>2, <2>3 DEF Readers, Writers, InLock
  <2>5. Lock!Upgrade(l)
      BY <2>3, <2>4 DEF Lock!Upgrade
  <2> QED
      BY <2>5 DEF Lock!Next
<1>3. CASE ~(owner[l].count = 1 /\ rw_owner = owner[l])
    BY <1>1, <1>3 DEF TryUpgrade, Readers, Writers, InLock
<1> QED
    BY <1>2, <1>3

\* The other steps are not seen from outside.
LEMMA Unseen ==
    ASSUME IInv, NEW l \in LWP,
           \/ Calls(l)
           \/ EnterWait(l) \/ EnterSpin(l) \/ EnterLookupRetry(l)
           \/ EnterLookup(l) \/ EnterBlock(l) \/ ExitLookup(l)
           \/ DowngradeLookup(l) \/ DowngradeRetry(l)
    PROVE  UNCHANGED <<Readers, Writers>>
<1> USE DEF IInv, TypeOK
<1>1. CASE Calls(l)
    BY <1>1 DEF Calls, EnterCall, TryEnterCall, ExitCall, DowngradeCall,
       TryUpgradeCall, Readers, Writers, InLock
<1>2. CASE \/ EnterWait(l) \/ EnterSpin(l) \/ EnterLookupRetry(l)
           \/ EnterLookup(l) \/ EnterBlock(l)
    BY <1>2 DEF EnterWait, EnterSpin, EnterLookupRetry, EnterLookup,
       EnterBlock, Readers, Writers, InLock
<1>3. CASE ExitLookup(l) \/ DowngradeLookup(l) \/ DowngradeRetry(l)
    BY <1>3 DEF ExitLookup, DowngradeLookup, DowngradeRetry, Readers, Writers,
       InLock
<1> QED
    BY <1>1, <1>2, <1>3

\* rw_enter() and rw_tryenter() take the lock with a compare-and-swap, or find
\* that the word has changed.
LEMMA Enters ==
    ASSUME IInv, NEW l \in LWP, EnterCas(l) \/ TryEnterCas(l)
    PROVE  Lock!Next \/ UNCHANGED <<Readers, Writers>>
<1> USE DEF IInv, TypeOK
<1>1. pc[l] \in {"enter", "tryenter"} /\ op[l] \in Op
    BY DEF EnterCas, TryEnterCas, ControlInv
<1>2. CASE rw_owner = owner[l]
  <2>1. /\ ~NeedWait(rw_owner, op[l])
        /\ pc' = [pc EXCEPT ![l] = "held"] /\ op' = op
      BY <1>2 DEF EnterCas, TryEnterCas, CopyInv
  <2> QED
      BY <1>1, <2>1, LetIn DEF InLock
<1>3. CASE rw_owner # owner[l]
    BY <1>1, <1>3 DEF EnterCas, TryEnterCas, Readers, Writers, InLock
<1> QED
    BY <1>2, <1>3

\* Every step of the code is one of the abstract lock, or is not seen.
LEMMA NextRefines ==
    ASSUME IInv, [Next]_vars
    PROVE  [Lock!Next]_(Lock!vars)
<1>1. CASE UNCHANGED vars
    BY <1>1 DEF vars, Lock!vars, Readers, Writers
<1>2. ASSUME NEW l \in LWP, Calls(l) \/ Runs(l)
      PROVE  Lock!Next \/ UNCHANGED <<Readers, Writers>>
    BY <1>2, Enters, HandedOver, Exits, Downgrades, Upgrades, Unseen DEF Runs
<1> QED
    BY <1>1, <1>2 DEF Next, Lock!vars

(***************************************************************************)
(* rw_enter(), rw_tryenter(), rw_exit(), rw_downgrade() and                *)
(* rw_tryupgrade() implement the abstract lock, for any number of LWPs: no *)
(* hold is lost or gained but by its own call or by a hand-over, and the   *)
(* readers that are handed the lock hold it from that very step.           *)
(***************************************************************************)
THEOREM RWLockIsLock == Spec => ImplementsLock
<1>1. Init => Lock!Init
    BY DEF Init, Lock!Init, Readers, Writers
<1> QED
    BY <1>1, NextRefines, Invariance, PTL DEF Spec, Lock!Spec, ImplementsLock
=============================================================================
