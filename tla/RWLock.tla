------------------------------- MODULE RWLock -------------------------------
(***************************************************************************)
(* The reader/writer lock of sys/kern/kern_rwlock.c, one lock shared by a  *)
(* set of LWPs on any number of CPUs.  Every action is one access to       *)
(* shared memory: a load of rw_owner, a compare-and-swap on it, or a       *)
(* section run under the turnstile chain lock.                             *)
(*                                                                         *)
(* Two reductions keep the steps few.  Taking the chain lock commutes with *)
(* every step of the other LWPs that can happen before the first access it *)
(* protects, so the acquisition is merged with the load of rw_owner that   *)
(* follows it.  Filling or draining the sleep queues and dropping the      *)
(* chain lock touch only what that lock protects, so they are merged with  *)
(* the compare-and-swap (or swap) of rw_owner that precedes them.          *)
(*                                                                         *)
(* The order inside a sleep queue depends on priorities that change while  *)
(* LWPs sleep (sleepq_changepri, sleepq_lendpri), so a queue is the set of *)
(* its LWPs and its head is any of them.  Panic paths are left out.        *)
(*                                                                         *)
(* A definition marked "Slip" is the one that follows it with a plausible  *)
(* mistake: the properties are shown to reject it.                         *)
(***************************************************************************)
EXTENDS Naturals, FiniteSets

CONSTANTS
    LWP,             \* the lwps that use the lock
    NoLWP,           \* a null lwp pointer
    MULTIPROCESSOR   \* the kernel option: rw_onproc() is compiled in

ASSUME LWPAssumption ==
    /\ IsFiniteSet(LWP)
    /\ NoLWP \notin LWP
    /\ MULTIPROCESSOR \in BOOLEAN

VARIABLES
    rw_owner,  \* the lock word, see Word
    sleepq,    \* the sleep queues of the lock's active turnstile
    tc_mutex,  \* the LWP that holds the turnstile chain lock
    pc,        \* where each LWP is in the functions of kern_rwlock.c
    op,        \* how each LWP holds or wants the lock, "none" if it does not
    owner      \* each LWP's local copy of rw_owner

vars == <<rw_owner, sleepq, tc_mutex, pc, op, owner>>

Op == {"RW_READER", "RW_WRITER"}

(***************************************************************************)
(* rw_owner.  The bits of RW_THREAD hold an lwp pointer when               *)
(* RW_WRITE_LOCKED is set and the number of read holds otherwise: thread   *)
(* is the pointer, count the number, and both are clear when RW_THREAD is. *)
(***************************************************************************)
Word == [has_waiters: BOOLEAN, write_wanted: BOOLEAN, write_locked: BOOLEAN,
         thread: LWP \cup {NoLWP}, count: Nat]

Unowned == [has_waiters |-> FALSE, write_wanted |-> FALSE,
            write_locked |-> FALSE, thread |-> NoLWP, count |-> 0]

\* (w & RW_THREAD) == 0
NoThread(w) == w.thread = NoLWP /\ w.count = 0

\* Slip: readers do not mind RW_WRITE_WANTED.
NeedWaitBarging(w, o) ==
    IF o = "RW_READER" THEN w.write_locked
                       ELSE w.write_locked \/ ~NoThread(w)

\* (w & need_wait) != 0
NeedWait(w, o) ==
    IF o = "RW_READER" THEN w.write_locked \/ w.write_wanted
                       ELSE w.write_locked \/ ~NoThread(w)

\* w + incr
Incr(w, l, o) ==
    IF o = "RW_READER" THEN [w EXCEPT !.count = @ + 1]
                       ELSE [w EXCEPT !.thread = l, !.write_locked = TRUE]

\* w - decr
Decr(w, o) ==
    IF o = "RW_READER" THEN [w EXCEPT !.count = @ - 1]
                       ELSE [w EXCEPT !.thread = NoLWP, !.write_locked = FALSE]

\* w & ~RW_WRITE_WANTED
NoWanted(w) == [w EXCEPT !.write_wanted = FALSE]

\* Slip: a writer announces a waiter, not a writer.
SetWaitUnwanted(w, o) == [w EXCEPT !.has_waiters = TRUE]

\* w | set_wait
SetWait(w, o) ==
    [w EXCEPT !.has_waiters = TRUE, !.write_wanted = @ \/ o = "RW_WRITER"]

(***************************************************************************)
(* rw_onproc(w) can be true: the writer may be running on a CPU.  It can   *)
(* always be false, since the writer may be switched out or may be waiting *)
(* for the big lock.                                                       *)
(***************************************************************************)
MayBeOnProc(w) == MULTIPROCESSOR /\ w.write_locked /\ ~w.has_waiters

-----------------------------------------------------------------------------
(***************************************************************************)
(* What the code calls the turnstile for.  Here ts != NULL exactly when    *)
(* some LWP sleeps, and ts_waiters[q] is the size of queue q.              *)
(***************************************************************************)
Queue(o) == IF o = "RW_READER" THEN "TS_READER_Q" ELSE "TS_WRITER_Q"

TS_WAITERS(q) == Cardinality(sleepq[q])

\* turnstile_block(): l joins queue q and the chain lock is dropped.
TurnstileBlock(l, q) ==
    /\ sleepq' = [sleepq EXCEPT ![q] = @ \cup {l}]
    /\ tc_mutex' = NoLWP

\* turnstile_wakeup(): the LWPs in S leave queue q and the lock is dropped.
TurnstileWakeup(q, S) ==
    /\ sleepq' = [sleepq EXCEPT ![q] = @ \ S]
    /\ tc_mutex' = NoLWP

\* Control moves to p in l, with w the local copy of the lock word.
Goto(l, p, w) ==
    /\ pc' = [pc EXCEPT ![l] = p]
    /\ owner' = [owner EXCEPT ![l] = w]

\* The same, for a function that returns: the local copy is dead.
Return(l, p) == Goto(l, p, Unowned)

\* l no longer holds or wants the lock.
Leaves(l) == op' = [op EXCEPT ![l] = "none"]

\* l goes to p and the LWPs in S, asleep until now, resume.
ReturnAndWake(l, p, S) ==
    /\ pc' = [x \in LWP |-> IF x = l THEN p
                            ELSE IF x \in S THEN "awake" ELSE pc[x]]
    /\ owner' = [owner EXCEPT ![l] = Unowned]

\* Nothing but control, the local copy and, if stated, rw_owner changes.
NoTurnstile == UNCHANGED <<sleepq, tc_mutex>>

-----------------------------------------------------------------------------
(***************************************************************************)
(* rw_vector_enter(rw, o)                                                  *)
(***************************************************************************)
EnterCall(l, o) ==
    /\ pc[l] = "idle"
    /\ op' = [op EXCEPT ![l] = o]
    /\ Goto(l, "enter", rw_owner)
    /\ UNCHANGED rw_owner
    /\ NoTurnstile

\* Slip: the lock is taken by a store, whatever the word has become.
EnterStore(l) ==
    /\ pc[l] = "enter"
    /\ ~NeedWait(owner[l], op[l])
    /\ rw_owner' = NoWanted(Incr(owner[l], l, op[l]))
    /\ Return(l, "held")
    /\ UNCHANGED op
    /\ NoTurnstile

\* No need to wait: try to take the lock.
EnterCas(l) ==
    /\ pc[l] = "enter"
    /\ ~NeedWait(owner[l], op[l])
    /\ IF rw_owner = owner[l]
       THEN /\ rw_owner' = NoWanted(Incr(owner[l], l, op[l]))
            /\ Return(l, "held")
       ELSE /\ Goto(l, "enter", rw_owner)
            /\ UNCHANGED rw_owner
    /\ UNCHANGED op
    /\ NoTurnstile

\* Must wait: spin if the owner is running, go for the chain lock if not.
EnterWait(l) ==
    /\ pc[l] = "enter"
    /\ NeedWait(owner[l], op[l])
    /\ \/ MayBeOnProc(owner[l]) /\ Goto(l, "spin", owner[l])
       \/ Goto(l, "lookup", owner[l])
    /\ UNCHANGED <<rw_owner, op>>
    /\ NoTurnstile

\* One round of the spin loop.
EnterSpin(l) ==
    /\ pc[l] = "spin"
    /\ \/ MayBeOnProc(rw_owner) /\ Goto(l, "spin", rw_owner)
       \/ Goto(l, IF NeedWait(rw_owner, op[l]) THEN "lookup" ELSE "enter",
               rw_owner)
    /\ UNCHANGED <<rw_owner, op>>
    /\ NoTurnstile

\* turnstile_lookup() and the reload: the lock is free or its owner runs.
EnterLookupRetry(l) ==
    /\ pc[l] = "lookup"
    /\ tc_mutex = NoLWP
    /\ ~NeedWait(rw_owner, op[l]) \/ MayBeOnProc(rw_owner)
    /\ Goto(l, "enter", rw_owner)
    /\ UNCHANGED <<rw_owner, op>>
    /\ NoTurnstile

\* turnstile_lookup() and the reload: it is time to sleep.
EnterLookup(l) ==
    /\ pc[l] = "lookup"
    /\ tc_mutex = NoLWP
    /\ NeedWait(rw_owner, op[l])
    /\ tc_mutex' = l
    /\ Goto(l, "setwait", rw_owner)
    /\ UNCHANGED <<rw_owner, op, sleepq>>

\* Set the waiter bits and block, or start again if the word has changed.
EnterBlock(l) ==
    /\ pc[l] = "setwait"
    /\ IF rw_owner = owner[l]
       THEN /\ rw_owner' = SetWait(owner[l], op[l])
            /\ TurnstileBlock(l, Queue(op[l]))
            /\ Goto(l, "asleep", owner[l])
       ELSE /\ tc_mutex' = NoLWP
            /\ Goto(l, "enter", rw_owner)
            /\ UNCHANGED <<rw_owner, sleepq>>
    /\ UNCHANGED op

\* Back from turnstile_block(): the lock was handed over, or go round the
\* loop with the word as it was before the sleep.
EnterAwake(l) ==
    /\ pc[l] = "awake"
    /\ IF op[l] = "RW_READER" \/ rw_owner.thread = l
       THEN Return(l, "held")
       ELSE Goto(l, "enter", owner[l])
    /\ UNCHANGED <<rw_owner, op>>
    /\ NoTurnstile

-----------------------------------------------------------------------------
(***************************************************************************)
(* rw_vector_exit(rw)                                                      *)
(***************************************************************************)
ExitCall(l) ==
    /\ pc[l] = "held"
    /\ Goto(l, "exit", rw_owner)
    /\ UNCHANGED <<rw_owner, op>>
    /\ NoTurnstile

\* decr: the word says whether it is a write hold or a read hold.
ExitOp(w) == IF w.write_locked THEN "RW_WRITER" ELSE "RW_READER"

\* Waiters, and the lock would become unowned: it has to be handed over.
MustHandOver(w) == w.has_waiters /\ NoThread(Decr(w, ExitOp(w)))

ExitCas(l) ==
    /\ pc[l] = "exit"
    /\ ~MustHandOver(owner[l])
    /\ IF rw_owner = owner[l]
       THEN /\ rw_owner' = Decr(owner[l], ExitOp(owner[l]))
            /\ Leaves(l)
            /\ Return(l, "idle")
       ELSE /\ Goto(l, "exit", rw_owner)
            /\ UNCHANGED <<rw_owner, op>>
    /\ NoTurnstile

\* turnstile_lookup() and the reload.
ExitLookup(l) ==
    /\ pc[l] = "exit"
    /\ MustHandOver(owner[l])
    /\ tc_mutex = NoLWP
    /\ tc_mutex' = l
    /\ Goto(l, "handover", rw_owner)
    /\ UNCHANGED <<rw_owner, op, sleepq>>

\* Slip: writers go first whatever is released.
WakeWritersFirst(o) ==
    \/ TS_WAITERS("TS_READER_Q") = 0
    \/ TS_WAITERS("TS_WRITER_Q") # 0

\* rcnt == 0 || (decr == RW_READ_INCR && wcnt != 0).  decr was set on entry;
\* CopyInv shows that it fits op throughout.
WakeWriters(o) ==
    \/ TS_WAITERS("TS_READER_Q") = 0
    \/ o = "RW_READER" /\ TS_WAITERS("TS_WRITER_Q") # 0

\* Slip: only the other writers are announced, the sleeping readers are not.
HandToWriterOnly(x) ==
    [has_waiters |-> TS_WAITERS("TS_WRITER_Q") > 1,
     write_wanted |-> TS_WAITERS("TS_WRITER_Q") > 1,
     write_locked |-> TRUE, thread |-> x, count |-> 0]

\* The new word when writer x is handed the lock.
HandToWriter(x) ==
    [has_waiters |-> TRUE, write_wanted |-> TS_WAITERS("TS_WRITER_Q") > 1,
     write_locked |-> TRUE, thread |-> x, count |-> 0]

\* Slip: the hold kept by rw_downgrade() is not counted.
HandToReadersUncounted(extra) ==
    [has_waiters |-> TS_WAITERS("TS_WRITER_Q") # 0,
     write_wanted |-> TS_WAITERS("TS_WRITER_Q") # 0,
     write_locked |-> FALSE, thread |-> NoLWP,
     count |-> TS_WAITERS("TS_READER_Q")]

\* The new word when every sleeping reader is handed the lock; extra is the
\* read hold that rw_downgrade() keeps.
HandToReaders(extra) ==
    [has_waiters |-> TS_WAITERS("TS_WRITER_Q") # 0,
     write_wanted |-> TS_WAITERS("TS_WRITER_Q") # 0,
     write_locked |-> FALSE, thread |-> NoLWP,
     count |-> TS_WAITERS("TS_READER_Q") + extra]

\* Readers wait too: give the lock to the first writer.
ExitToWriter(l) ==
    /\ pc[l] = "handover"
    /\ WakeWriters(op[l])
    /\ TS_WAITERS("TS_READER_Q") # 0
    /\ \E x \in sleepq["TS_WRITER_Q"] :
          /\ rw_owner' = HandToWriter(x)
          /\ TurnstileWakeup("TS_WRITER_Q", {x})
          /\ ReturnAndWake(l, "idle", {x})
    /\ Leaves(l)

\* Only writers wait: wake them all and let them fight it out.
ExitToWriters(l) ==
    /\ pc[l] = "handover"
    /\ TS_WAITERS("TS_READER_Q") = 0
    /\ rw_owner' = [Unowned EXCEPT !.write_wanted = TRUE]
    /\ TurnstileWakeup("TS_WRITER_Q", sleepq["TS_WRITER_Q"])
    /\ ReturnAndWake(l, "idle", sleepq["TS_WRITER_Q"])
    /\ Leaves(l)

\* Give the lock to all sleeping readers.
ExitToReaders(l) ==
    /\ pc[l] = "handover"
    /\ ~WakeWriters(op[l])
    /\ rw_owner' = HandToReaders(0)
    /\ TurnstileWakeup("TS_READER_Q", sleepq["TS_READER_Q"])
    /\ ReturnAndWake(l, "idle", sleepq["TS_READER_Q"])
    /\ Leaves(l)

-----------------------------------------------------------------------------
(***************************************************************************)
(* rw_vector_tryenter(rw, o).  The word is loaded again on every round, so *)
(* a failed compare-and-swap goes back to the load.  RW_WRITE_WANTED is    *)
(* not cleared here.                                                       *)
(***************************************************************************)
TryEnterCall(l, o) ==
    /\ pc[l] = "idle"
    /\ IF NeedWait(rw_owner, o)
       THEN UNCHANGED <<pc, owner, op>>
       ELSE /\ op' = [op EXCEPT ![l] = o]
            /\ Goto(l, "tryenter", rw_owner)
    /\ UNCHANGED rw_owner
    /\ NoTurnstile

TryEnterCas(l) ==
    /\ pc[l] = "tryenter"
    /\ IF rw_owner = owner[l]
       THEN /\ rw_owner' = Incr(owner[l], l, op[l])
            /\ Return(l, "held")
            /\ UNCHANGED op
       ELSE /\ IF NeedWait(rw_owner, op[l])
               THEN Leaves(l) /\ Return(l, "idle")
               ELSE UNCHANGED op /\ Goto(l, "tryenter", rw_owner)
            /\ UNCHANGED rw_owner
    /\ NoTurnstile

-----------------------------------------------------------------------------
(***************************************************************************)
(* rw_downgrade(rw)                                                        *)
(***************************************************************************)
DowngradeCall(l) ==
    /\ pc[l] = "held"
    /\ op[l] = "RW_WRITER"
    /\ Goto(l, IF rw_owner.has_waiters THEN "down_lookup" ELSE "down_easy",
            rw_owner)
    /\ UNCHANGED <<rw_owner, op>>
    /\ NoTurnstile

\* l now holds the lock for reading.
Downgraded(l) == op' = [op EXCEPT ![l] = "RW_READER"]

\* Slip: the word is overwritten without looking for new waiters.
DowngradeBlindly(l) ==
    /\ pc[l] = "down_easy"
    /\ rw_owner' = [Unowned EXCEPT !.count = 1]
    /\ Downgraded(l)
    /\ Return(l, "held")
    /\ NoTurnstile

\* No waiters: swap down to one read hold.
DowngradeEasy(l) ==
    /\ pc[l] = "down_easy"
    /\ IF rw_owner = owner[l]
       THEN /\ rw_owner' = [Unowned EXCEPT !.count = 1]
            /\ Downgraded(l)
            /\ Return(l, "held")
       ELSE /\ Goto(l, "down_lookup", rw_owner)
            /\ UNCHANGED <<rw_owner, op>>
    /\ NoTurnstile

DowngradeLookup(l) ==
    /\ pc[l] = "down_lookup"
    /\ tc_mutex = NoLWP
    /\ tc_mutex' = l
    /\ Goto(l, "downgrade", owner[l])
    /\ UNCHANGED <<rw_owner, op, sleepq>>

\* No reader waits: keep the waiter bits, whatever sleeps goes on sleeping.
DowngradeAlone(l) ==
    /\ pc[l] = "downgrade"
    /\ TS_WAITERS("TS_READER_Q") = 0
    /\ rw_owner = owner[l]
    /\ rw_owner' = [has_waiters |-> TRUE, write_wanted |-> TRUE,
                    write_locked |-> FALSE, thread |-> NoLWP, count |-> 1]
    /\ tc_mutex' = NoLWP
    /\ Downgraded(l)
    /\ Return(l, "held")
    /\ UNCHANGED sleepq

\* Readers wait: they get the lock too.
DowngradeToReaders(l) ==
    /\ pc[l] = "downgrade"
    /\ TS_WAITERS("TS_READER_Q") # 0
    /\ rw_owner = owner[l]
    /\ rw_owner' = HandToReaders(1)
    /\ TurnstileWakeup("TS_READER_Q", sleepq["TS_READER_Q"])
    /\ Downgraded(l)
    /\ ReturnAndWake(l, "held", sleepq["TS_READER_Q"])

\* The word has changed since it was read: drop the chain lock, try again.
DowngradeRetry(l) ==
    /\ pc[l] = "downgrade"
    /\ rw_owner # owner[l]
    /\ tc_mutex' = NoLWP
    /\ Goto(l, "down_lookup", rw_owner)
    /\ UNCHANGED <<rw_owner, op, sleepq>>

-----------------------------------------------------------------------------
(***************************************************************************)
(* rw_tryupgrade(rw): l must be the only reader.                           *)
(***************************************************************************)
TryUpgradeCall(l) ==
    /\ pc[l] = "held"
    /\ op[l] = "RW_READER"
    /\ Goto(l, "upgrade", rw_owner)
    /\ UNCHANGED <<rw_owner, op>>
    /\ NoTurnstile

\* Slip: the other readers are not looked at.
TryUpgradeShared(l) ==
    /\ pc[l] = "upgrade"
    /\ IF rw_owner = owner[l]
       THEN /\ rw_owner' = [owner[l] EXCEPT !.write_locked = TRUE,
                                            !.thread = l, !.count = 0]
            /\ op' = [op EXCEPT ![l] = "RW_WRITER"]
            /\ Return(l, "held")
       ELSE /\ Goto(l, "upgrade", rw_owner)
            /\ UNCHANGED <<rw_owner, op>>
    /\ NoTurnstile

TryUpgrade(l) ==
    /\ pc[l] = "upgrade"
    /\ IF owner[l].count # 1
       THEN Return(l, "held") /\ UNCHANGED <<rw_owner, op>>
       ELSE IF rw_owner = owner[l]
       THEN /\ rw_owner' = [owner[l] EXCEPT !.write_locked = TRUE,
                                            !.thread = l, !.count = 0]
            /\ op' = [op EXCEPT ![l] = "RW_WRITER"]
            /\ Return(l, "held")
       ELSE /\ Goto(l, "upgrade", rw_owner)
            /\ UNCHANGED <<rw_owner, op>>
    /\ NoTurnstile

-----------------------------------------------------------------------------
Init ==
    /\ rw_owner = Unowned
    /\ sleepq = [q \in {"TS_READER_Q", "TS_WRITER_Q"} |-> {}]
    /\ tc_mutex = NoLWP
    /\ pc = [l \in LWP |-> "idle"]
    /\ op = [l \in LWP |-> "none"]
    /\ owner = [l \in LWP |-> Unowned]

\* The calls a user of the lock makes.
Calls(l) ==
    \/ \E o \in Op : EnterCall(l, o) \/ TryEnterCall(l, o)
    \/ ExitCall(l) \/ DowngradeCall(l) \/ TryUpgradeCall(l)

\* The steps inside a call.
Runs(l) ==
    \/ EnterCas(l) \/ EnterWait(l) \/ EnterSpin(l)
    \/ EnterLookupRetry(l) \/ EnterLookup(l) \/ EnterBlock(l) \/ EnterAwake(l)
    \/ ExitCas(l) \/ ExitLookup(l)
    \/ ExitToWriter(l) \/ ExitToWriters(l) \/ ExitToReaders(l)
    \/ TryEnterCas(l)
    \/ DowngradeEasy(l) \/ DowngradeLookup(l) \/ DowngradeAlone(l)
    \/ DowngradeToReaders(l) \/ DowngradeRetry(l)
    \/ TryUpgrade(l)

Next == \E l \in LWP : Calls(l) \/ Runs(l)

Spec == Init /\ [][Next]_vars

(***************************************************************************)
(* Once the CPU runs an LWP inside the lock's code the code goes on; and   *)
(* every holder releases the lock in the end, which is what a lock's users *)
(* owe it.  Nothing is assumed about calls to take the lock.               *)
(***************************************************************************)
FairSpec ==
    /\ Spec
    /\ \A l \in LWP : WF_vars(Runs(l)) /\ SF_vars(ExitCall(l))

-----------------------------------------------------------------------------
InLock == {"held", "exit", "handover", "down_easy", "down_lookup",
           "downgrade", "upgrade"}

InEnter == {"enter", "spin", "lookup", "setwait", "awake"}

\* The LWPs that hold the lock for reading.  One that was asleep holds it
\* from the moment it is woken.
Readers == {l \in LWP : op[l] = "RW_READER" /\ pc[l] \in InLock \cup {"awake"}}

\* The LWPs that hold it for writing.
Writers == {l \in LWP : op[l] = "RW_WRITER" /\ pc[l] \in InLock}

TypeOK ==
    /\ rw_owner \in Word
    /\ sleepq \in [{"TS_READER_Q", "TS_WRITER_Q"} -> SUBSET LWP]
    /\ tc_mutex \in LWP \cup {NoLWP}
    /\ pc \in [LWP -> {"idle", "tryenter", "asleep"} \cup InEnter \cup InLock]
    /\ op \in [LWP -> Op \cup {"none"}]
    /\ owner \in [LWP -> Word]

(***************************************************************************)
(* The lock excludes: while an LWP that entered (or tried, or upgraded)    *)
(* for writing has not released or downgraded, nobody else holds the lock  *)
(* in any way, the LWPs handed the lock while they slept included.         *)
(***************************************************************************)
MutualExclusion ==
    \A l \in Writers : Writers = {l} /\ Readers = {}

(***************************************************************************)
(* Seen from outside, rw_vector_enter(), rw_vector_tryenter(),             *)
(* rw_vector_exit(), rw_downgrade() and rw_tryupgrade() are the steps of   *)
(* the abstract lock: nobody loses a hold but by its own call, the readers *)
(* woken by a hand-over hold the lock from that very step, and nobody gets *)
(* in between the release and the hand-over.                               *)
(***************************************************************************)
Lock == INSTANCE AbstractLock WITH readers <- Readers, writers <- Writers

ImplementsLock == Lock!Spec

(***************************************************************************)
(* The lock word tells the truth: the count of read holds is the number of *)
(* LWPs that will call rw_exit() for a read hold, and a writer's pointer   *)
(* is in the word.  A lost or doubled increment, in a compare-and-swap or  *)
(* in a hand-over, breaks this long before two LWPs meet.                  *)
(***************************************************************************)
HoldsAreCounted ==
    /\ rw_owner.count = Cardinality(Readers)
    /\ \A l \in Writers : rw_owner.thread = l

(***************************************************************************)
(* Nobody sleeps unseen: a sleeping writer is always announced in the word *)
(* and the lock always has a holder who will find it; a sleeping reader is *)
(* announced, and either there is a holder or some writer is still on its  *)
(* way into the lock and will find the reader when it leaves.              *)
(***************************************************************************)
NoSleeperUnseen ==
    /\ sleepq["TS_WRITER_Q"] # {} =>
          rw_owner.has_waiters /\ rw_owner.write_wanted /\ ~NoThread(rw_owner)
    /\ sleepq["TS_READER_Q"] # {} =>
          /\ rw_owner.has_waiters
          /\ ~NoThread(rw_owner) \/
                \E l \in LWP : op[l] = "RW_WRITER" /\ pc[l] \in InEnter

(***************************************************************************)
(* The diagnostic assertions of the hand-over paths hold.  In              *)
(* rw_vector_exit(), under the chain lock: there is a turnstile, the       *)
(* waiters bit is set, a writer sleeps and is announced when no reader     *)
(* does, and the word is still the one read when rw_swap() overwrites it.  *)
(* In rw_downgrade(): the same, but for the word.                          *)
(***************************************************************************)
HandoverAssertions ==
    \A l \in LWP :
        /\ pc[l] = "handover" => rw_owner = owner[l]
        /\ pc[l] \in {"handover", "downgrade"} =>
              /\ rw_owner.has_waiters
              /\ sleepq["TS_READER_Q"] = {} =>
                    sleepq["TS_WRITER_Q"] # {} /\ rw_owner.write_wanted

(***************************************************************************)
(* A reader that goes to sleep is woken, and is then a holder.             *)
(***************************************************************************)
SleepingReaderServed ==
    \A l \in LWP : l \in sleepq["TS_READER_Q"] ~> l \in Readers

(***************************************************************************)
(* Readers cannot keep writers out: once a writer sleeps behind readers    *)
(* the lock comes to be held for writing, however many readers arrive.     *)
(***************************************************************************)
WriterNotLockedOut ==
    (rw_owner.count > 0 /\ sleepq["TS_WRITER_Q"] # {}) ~> rw_owner.write_locked

-----------------------------------------------------------------------------
(***************************************************************************)
(* The inductive invariant behind the safety properties.                   *)
(***************************************************************************)

\* The word is free, held by readers or held by one writer, never a mixture;
\* the writer it names holds the lock or has just been handed it.
WordInv ==
    /\ rw_owner.write_locked <=> rw_owner.thread # NoLWP
    /\ rw_owner.write_locked => rw_owner.count = 0
    /\ rw_owner.count = Cardinality(Readers)
    /\ \A l \in Writers : rw_owner.thread = l
    /\ \A l \in LWP :
          rw_owner.thread = l =>
             op[l] = "RW_WRITER" /\ pc[l] \in InLock \cup {"awake"}

\* Who is where: outside the lock, on a queue, under the chain lock.
ControlInv ==
    \A l \in LWP :
        /\ pc[l] = "idle" <=> op[l] = "none"
        /\ l \in sleepq["TS_READER_Q"] <=>
              pc[l] = "asleep" /\ op[l] = "RW_READER"
        /\ l \in sleepq["TS_WRITER_Q"] <=>
              pc[l] = "asleep" /\ op[l] = "RW_WRITER"
        /\ tc_mutex = l <=> pc[l] \in {"setwait", "handover", "downgrade"}
        /\ pc[l] \in {"down_easy", "down_lookup", "downgrade"} =>
              op[l] = "RW_WRITER"
        /\ pc[l] = "upgrade" => op[l] = "RW_READER"

\* What the waiter bits promise.  A set RW_WRITE_WANTED stands for a writer
\* asleep or for one woken (or arriving) that has not got the lock yet; on a
\* read-held lock only for one asleep.
WaitersInv ==
    /\ sleepq["TS_WRITER_Q"] # {} =>
          rw_owner.has_waiters /\ rw_owner.write_wanted /\ ~NoThread(rw_owner)
    /\ sleepq["TS_READER_Q"] # {} => rw_owner.has_waiters
    /\ rw_owner.has_waiters =>
          sleepq["TS_READER_Q"] # {} \/ sleepq["TS_WRITER_Q"] # {}
    /\ rw_owner.has_waiters /\ NoThread(rw_owner) => rw_owner.write_wanted
    /\ rw_owner.count > 0 /\ (rw_owner.has_waiters \/ rw_owner.write_wanted)
          => sleepq["TS_WRITER_Q"] # {}
    /\ rw_owner.write_wanted =>
          \/ sleepq["TS_WRITER_Q"] # {}
          \/ \E l \in LWP : /\ op[l] = "RW_WRITER"
                            /\ pc[l] \in InEnter
                            /\ rw_owner.thread # l

\* What an LWP knows from the copy of the word it has read.
CopyInv ==
    \A l \in LWP :
        /\ pc[l] = "tryenter" => ~NeedWait(owner[l], op[l])
        /\ pc[l] = "setwait" => NeedWait(owner[l], op[l])
        /\ pc[l] = "exit" =>
              /\ ExitOp(owner[l]) = op[l]
              /\ MustHandOver(owner[l]) =>
                    /\ rw_owner.has_waiters
                    /\ op[l] = "RW_READER" => rw_owner.count = 1
        /\ pc[l] = "handover" =>
              /\ rw_owner = owner[l]
              /\ rw_owner.has_waiters
              /\ op[l] = "RW_READER" => rw_owner.count = 1
        /\ pc[l] = "down_easy" =>
              /\ ~owner[l].has_waiters
              /\ ~rw_owner.has_waiters => rw_owner = owner[l]
        /\ pc[l] \in {"down_lookup", "downgrade"} => rw_owner.has_waiters

IInv == TypeOK /\ WordInv /\ ControlInv /\ WaitersInv /\ CopyInv
=============================================================================
