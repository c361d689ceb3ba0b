----------------------------- MODULE Turnstile -----------------------------
(***************************************************************************)
(* Turnstiles, the sleep queues of mutexes and reader/writer locks:        *)
(* kern_turnstile.c with the parts of kern_sleepq.c that keep the queues   *)
(* in the order of priority, and the locks as their callers.               *)
(*                                                                         *)
(* Every LWP owns one turnstile.  The first to sleep on a lock lends its   *)
(* own to the lock, the others put theirs on its free list, and whoever is *)
(* woken takes one away.  A sleeper lends its priority to the owner of the *)
(* lock, to the owner of the lock on which that one sleeps, and so on: the *)
(* loop of turnstile_block(), one iteration per action.                    *)
(*                                                                         *)
(* An LWP is protected by the lock that l_mutex points to: the chain lock  *)
(* of the turnstile it sleeps on, or its CPU's.  Whoever walks along the   *)
(* chain of owners keeps the lock of the LWP it has reached ("at") between *)
(* two iterations; everything else is done in one section under the chain  *)
(* lock.  Chain locks are one per lock here: that several locks may hash   *)
(* to the same chain only makes sections exclude each other more often.    *)
(*                                                                         *)
(* The words of the locks are modelled in Mutex and RWLock; here they are  *)
(* the owner, the readers and RW_WRITE_WANTED.  LWPs take locks in         *)
(* ascending order.  lwp_eprio()'s kernel priorities are left out: "pri"   *)
(* is what it makes of l_priority.                                         *)
(*                                                                         *)
(* A definition whose name ends in Slip is the one after it with a         *)
(* plausible mistake.  No slip is part of the specification.               *)
(***************************************************************************)
EXTENDS Naturals, Sequences, FiniteSets, FiniteSetsExt

CONSTANTS
  Lwp, None,
  Mutexes, RWLocks,    \* disjoint sets of numbers, the order of locking
  MaxPri,              \* priorities are 1 .. MaxPri; 0 is none
  Changes,             \* may l_priority change?
  Spurious             \* may lwp_trylock() fail for a reason not modelled?

Lock == Mutexes \cup RWLocks
Prio == 1 .. MaxPri

TurnstileAssumption ==
  /\ Mutexes \subseteq Nat /\ RWLocks \subseteq Nat
  /\ Mutexes \cap RWLocks = {} /\ None \notin Lwp
  /\ MaxPri \in Nat /\ Changes \in BOOLEAN /\ Spurious \in BOOLEAN

VARIABLES
  owner, readers, wanted,  \* the locks
  act,        \* the active turnstile of each lock, or None
  free,       \* ts_free, as a sequence
  queue,      \* ts_sleepq[TS_READER_Q] and ts_sleepq[TS_WRITER_Q]
  inheritor,  \* ts_inheritor
  teprio,     \* ts_eprio
  l_ts, l_pi_lenders, l_inheritedprio, l_wchan, pri,   \* of each LWP
  pc, want, mode,   \* where it is, the lock it wants and how
  at, prio          \* l and prio in turnstile_block()

locks == <<owner, readers, wanted>>
tsvars == <<act, free, queue, inheritor, teprio, l_ts>>
privars == <<l_pi_lenders, l_inheritedprio>>
ctl == <<want, mode>>
walk == <<at, prio>>
vars == <<locks, tsvars, privars, l_wchan, pri, pc, ctl, walk>>

(* A turnstile is known by the LWP it was created for. *)
Ts == Lwp
Q == {"reader", "writer"}

Eprio(l, inh) == IF inh[l] > pri[l] THEN inh[l] ELSE pri[l]
lwp_eprio(l) == Eprio(l, l_inheritedprio)
Waiters(t) == Len(queue[t]["reader"]) + Len(queue[t]["writer"])

Holds(l, x) == owner[x] = l \/ l \in readers[x]

-----------------------------------------------------------------------------
(***************************************************************************)
(* The locks of LWPs.                                                      *)
(***************************************************************************)

MutexOf(l) == IF l_wchan[l] = None THEN <<"cpu", l>> ELSE <<"chain", l_wchan[l]>>

(* Is this lock free for LWP w, or already its own? *)
CanLock(w, id) ==
  \A v \in Lwp \ {w} : pc[v] = "walk" => MutexOf(at[v]) # id

CanSleepOrWake(l, x) == CanLock(l, <<"chain", x>>) /\ CanLock(l, <<"cpu", l>>)

-----------------------------------------------------------------------------
(***************************************************************************)
(* Sleep queues.                                                           *)
(***************************************************************************)

(* sleepq_insert(): before the first LWP of lower priority. *)
SleepqInsertSlip(s, l, inh) == Append(s, l)
SleepqInsert(s, l, inh) ==
  LET n == Cardinality({i \in 1 .. Len(s) : Eprio(s[i], inh) >= Eprio(l, inh)})
  IN  SubSeq(s, 1, n) \o <<l>> \o SubSeq(s, n + 1, Len(s))

Without(s, l) == SelectSeq(s, LAMBDA k : k # l)

(* The queue on which LWP l sleeps, sorted again: sleepq_lendpri() and     *)
(* sleepq_changepri() for one that sleeps.                                 *)
Resorted(q, l, inh) ==
  IF l_wchan[l] = None THEN q
  ELSE [q EXCEPT ![l_ts[l]][mode[l]] = SleepqInsert(Without(@, l), l, inh)]

-----------------------------------------------------------------------------
(***************************************************************************)
(* turnstile_block().                                                      *)
(***************************************************************************)

(* The turnstile of the lock, and what becomes of the LWP's own. *)
Contribute(l, x) ==
  IF act[x] = None
  THEN /\ act' = [act EXCEPT ![x] = l_ts[l]]
       /\ inheritor' = [inheritor EXCEPT ![l_ts[l]] = None]
       /\ UNCHANGED <<free, l_ts>>
  ELSE /\ free' = [free EXCEPT ![act[x]] = <<l_ts[l]>> \o @]
       /\ l_ts' = [l_ts EXCEPT ![l] = act[x]]
       /\ UNCHANGED <<act, inheritor>>

turnstile_block(l, x, m) ==
  LET t == IF act[x] = None THEN l_ts[l] ELSE act[x] IN
  /\ CanSleepOrWake(l, x)
  /\ Contribute(l, x)
  /\ queue' = [queue EXCEPT ![t][m] = SleepqInsert(@, l, l_inheritedprio)]
  /\ l_wchan' = [l_wchan EXCEPT ![l] = x]
  /\ pc' = [pc EXCEPT ![l] = "walk"]
  /\ at' = [at EXCEPT ![l] = l]
  /\ prio' = [prio EXCEPT ![l] = lwp_eprio(l)]
  /\ UNCHANGED <<teprio, privars, pri>>

(* sobj_owner: mutex_owner() and rw_owner(). *)
SobjOwner(x) == owner[x]

(* There is nobody (else) to lend to, or no need to. *)
WalkEnds(w) ==
  LET l == at[w] IN
  \/ l_wchan[l] = None
  \/ /\ l_wchan[l] # None
     /\ \/ SobjOwner(l_wchan[l]) \in {None, w}
        \/ /\ SobjOwner(l_wchan[l]) \notin {None, w, l}
           /\ CanLock(w, MutexOf(SobjOwner(l_wchan[l])))
           /\ prio[w] <= lwp_eprio(SobjOwner(l_wchan[l]))

(* The LWP lets go of the lock it has and takes its own for           *)
(* sleepq_block(), which returns at once if it was woken meanwhile.        *)
WalkStop(w) ==
  /\ pc[w] = "walk"
  /\ WalkEnds(w)
  /\ pc' = [pc EXCEPT ![w] = IF l_wchan[w] = None THEN "woken" ELSE "asleep"]
  /\ at' = [at EXCEPT ![w] = None]
  /\ prio' = [prio EXCEPT ![w] = 0]
  /\ UNCHANGED <<locks, tsvars, privars, l_wchan, pri, ctl>>

(* lwp_lendpri(), and the queue on which the owner sleeps. *)
LendPri(o, p) ==
  /\ l_inheritedprio' = [l_inheritedprio EXCEPT ![o] = p]
  /\ queue' = Resorted(queue, o, [l_inheritedprio EXCEPT ![o] = p])

WalkLend(w) ==
  LET l == at[w]
      o == SobjOwner(l_wchan[l])
      t == l_ts[l]
  IN
  /\ pc[w] = "walk" /\ l_wchan[l] # None
  /\ o \notin {None, w, l}
  /\ CanLock(w, MutexOf(o))
  /\ prio[w] > lwp_eprio(o)
  /\ inheritor' = [inheritor EXCEPT ![t] = o]
  /\ l_pi_lenders' = [l_pi_lenders EXCEPT ![o] = @ \cup {t}]
  /\ IF inheritor[t] = None \/ prio[w] > teprio[t]
     THEN teprio' = [teprio EXCEPT ![t] = prio[w]] /\ LendPri(o, prio[w])
     ELSE UNCHANGED <<teprio, l_inheritedprio, queue>>
  /\ at' = [at EXCEPT ![w] = o]
  /\ UNCHANGED <<locks, act, free, l_ts, l_wchan, pri, pc, ctl, prio>>

(* The owner cannot be locked, or has changed: all over again.  Until the  *)
(* LWP has its own lock again, others may come between.                    *)
WalkRestart(w) ==
  LET l == at[w] IN
  /\ pc[w] = "walk" /\ l_wchan[l] # None
  /\ SobjOwner(l_wchan[l]) \notin {None, w}
  /\ \/ Spurious
     \/ SobjOwner(l_wchan[l]) = l
     \/ ~CanLock(w, MutexOf(SobjOwner(l_wchan[l])))
  /\ pc' = [pc EXCEPT ![w] = "restart"]
  /\ UNCHANGED <<locks, tsvars, privars, l_wchan, pri, ctl, walk>>

WalkAgain(w) ==
  /\ pc[w] = "restart"
  /\ CanLock(w, MutexOf(w))
  /\ pc' = [pc EXCEPT ![w] = "walk"]
  /\ at' = [at EXCEPT ![w] = w]
  /\ prio' = [prio EXCEPT ![w] = lwp_eprio(w)]
  /\ UNCHANGED <<locks, tsvars, privars, l_wchan, pri, ctl>>

-----------------------------------------------------------------------------
(***************************************************************************)
(* turnstile_wakeup().                                                     *)
(***************************************************************************)

(* What LWP l inherits from the turnstiles in s. *)
Inherited(s) == IF s = {} THEN 0 ELSE Max({teprio[t] : t \in s})

(* LWP l, which releases the lock, returns the priority it was lent. *)
ReturnPriSlip(l, t) ==
  IF inheritor[t] = None THEN UNCHANGED <<inheritor, privars>>
  ELSE /\ inheritor' = [inheritor EXCEPT ![t] = None]
       /\ l_pi_lenders' = [l_pi_lenders EXCEPT ![l] = @ \ {t}]
       /\ l_inheritedprio' = [l_inheritedprio EXCEPT ![l] = 0]
ReturnPriKeptSlip(l, t) ==
  /\ inheritor' = [inheritor EXCEPT ![t] = None]
  /\ UNCHANGED privars
ReturnPri(l, t) ==
  IF inheritor[t] = None THEN UNCHANGED <<inheritor, privars>>
  ELSE /\ inheritor' = [inheritor EXCEPT ![t] = None]
       /\ l_pi_lenders' = [l_pi_lenders EXCEPT ![l] = @ \ {t}]
       /\ l_inheritedprio' = [l_inheritedprio EXCEPT
                                ![l] = Inherited(l_pi_lenders[l] \ {t})]

(* turnstile_remove() of each LWP of s in turn: it takes a turnstile off   *)
(* the free list, or the active one if it is the last.                     *)
GiveBackSlip(t, s, x) ==
  /\ l_ts' = l_ts
  /\ free' = [free EXCEPT ![t] = <<>>]
  /\ act' = [act EXCEPT ![x] = IF Waiters(t) = Len(s) THEN None ELSE t]
GiveBack(t, s, x) ==
  /\ l_ts' = [l \in Lwp |->
       IF \E i \in 1 .. Len(free[t]) : i <= Len(s) /\ s[i] = l
       THEN free[t][CHOOSE i \in 1 .. Len(free[t]) : i <= Len(s) /\ s[i] = l]
       ELSE l_ts[l]]
  /\ free' = [free EXCEPT ![t] = SubSeq(@, Len(s) + 1, Len(@))]
  /\ act' = [act EXCEPT ![x] = IF Len(s) > Len(free[t]) THEN None ELSE t]

(* LWP l wakes the first n of queue q. *)
turnstile_wakeup(l, x, q, n) ==
  LET t == act[x]
      s == SubSeq(queue[t][q], 1, n)
      woken == {s[i] : i \in 1 .. n}
  IN
  /\ CanSleepOrWake(l, x)
  /\ ReturnPri(l, t)
  /\ GiveBack(t, s, x)
  /\ queue' = [queue EXCEPT ![t][q] = SubSeq(@, n + 1, Len(@))]
  /\ l_wchan' = [k \in Lwp |-> IF k \in woken THEN None ELSE l_wchan[k]]
  /\ pc' = [k \in Lwp |-> IF k \in woken /\ pc[k] = "asleep" THEN "woken"
                          ELSE pc[k]]
  /\ UNCHANGED <<teprio, pri>>

-----------------------------------------------------------------------------
(***************************************************************************)
(* The locks.                                                              *)
(***************************************************************************)

Rest == <<tsvars, privars, l_wchan, pri, walk>>

NeedWait(x, m) == IF m = "writer" THEN owner[x] # None \/ readers[x] # {}
                  ELSE owner[x] # None \/ wanted[x]

Call(l) ==
  /\ pc[l] = "run"
  /\ \E x \in Lock, m \in Q :
       /\ x \in Mutexes => m = "writer"
       /\ \A y \in Lock : Holds(l, y) => y < x
       /\ want' = [want EXCEPT ![l] = x]
       /\ mode' = [mode EXCEPT ![l] = m]
  /\ pc' = [pc EXCEPT ![l] = "enter"]
  /\ UNCHANGED <<locks, Rest>>

EnterGot(l) ==
  LET x == want[l] IN
  /\ pc[l] = "enter" /\ ~NeedWait(x, mode[l])
  /\ IF mode[l] = "writer"
     THEN owner' = [owner EXCEPT ![x] = l] /\ UNCHANGED readers
     ELSE readers' = [readers EXCEPT ![x] = @ \cup {l}] /\ UNCHANGED owner
  /\ wanted' = [wanted EXCEPT ![x] = FALSE]
  /\ pc' = [pc EXCEPT ![l] = "run"]
  /\ UNCHANGED <<ctl, Rest>>

EnterBlock(l) ==
  LET x == want[l] IN
  /\ pc[l] = "enter" /\ NeedWait(x, mode[l])
  /\ wanted' = [wanted EXCEPT ![x] = @ \/ (x \in RWLocks /\ mode[l] = "writer")]
  /\ turnstile_block(l, x, mode[l])
  /\ UNCHANGED <<owner, readers, ctl>>

(* A reader, or a writer that was handed the lock, has it; others try      *)
(* again.                                                                  *)
Resume(l) ==
  /\ pc[l] = "woken"
  /\ pc' = [pc EXCEPT ![l] = IF Holds(l, want[l]) THEN "run" ELSE "enter"]
  /\ UNCHANGED <<locks, ctl, Rest>>

(* The lock stays held, or nobody waits for it. *)
ExitAlone(l) ==
  /\ pc[l] = "run"
  /\ \E x \in Lock :
       /\ Holds(l, x)
       /\ act[x] = None \/ readers[x] \ {l} # {}
       /\ owner' = [owner EXCEPT ![x] = IF @ = l THEN None ELSE @]
       /\ readers' = [readers EXCEPT ![x] = @ \ {l}]
  /\ UNCHANGED <<wanted, pc, ctl, Rest>>

(* mutex_vector_exit(): all waiters try again. *)
MutexExit(l) ==
  /\ pc[l] = "run"
  /\ \E x \in Mutexes :
       /\ owner[x] = l /\ act[x] # None
       /\ owner' = [owner EXCEPT ![x] = None]
       /\ turnstile_wakeup(l, x, "writer", Len(queue[act[x]]["writer"]))
  /\ UNCHANGED <<readers, wanted, ctl, walk>>

(* rw_vector_exit() when the lock would become free: to the first writer,  *)
(* to whichever writer is the fastest, or to all readers.                  *)
RWExit(l) ==
  /\ pc[l] = "run"
  /\ \E x \in RWLocks :
       LET t == act[x]
           r == queue[t]["reader"]
           w == queue[t]["writer"]
       IN
       /\ Holds(l, x) /\ t # None /\ readers[x] \ {l} = {}
       /\ \/ /\ l \in readers[x] /\ w # <<>> /\ r # <<>>
             /\ owner' = [owner EXCEPT ![x] = w[1]]
             /\ readers' = [readers EXCEPT ![x] = {}]
             /\ wanted' = [wanted EXCEPT ![x] = Len(w) > 1]
             /\ turnstile_wakeup(l, x, "writer", 1)
          \/ /\ r = <<>>
             /\ owner' = [owner EXCEPT ![x] = None]
             /\ readers' = [readers EXCEPT ![x] = {}]
             /\ wanted' = [wanted EXCEPT ![x] = TRUE]
             /\ turnstile_wakeup(l, x, "writer", Len(w))
          \/ /\ r # <<>> /\ (owner[x] = l \/ w = <<>>)
             /\ owner' = [owner EXCEPT ![x] = None]
             /\ readers' = [readers EXCEPT ![x] = {r[i] : i \in 1 .. Len(r)}]
             /\ wanted' = [wanted EXCEPT ![x] = w # <<>>]
             /\ turnstile_wakeup(l, x, "reader", Len(r))
  /\ UNCHANGED <<ctl, walk>>

(* rw_downgrade(): waiting readers get the lock too. *)
Downgrade(l) ==
  /\ pc[l] = "run"
  /\ \E x \in RWLocks :
       LET t == act[x]
           r == IF t = None THEN <<>> ELSE queue[t]["reader"]
       IN
       /\ owner[x] = l
       /\ owner' = [owner EXCEPT ![x] = None]
       /\ readers' = [readers EXCEPT ![x] = {l} \cup {r[i] : i \in 1 .. Len(r)}]
       /\ IF r = <<>>
          THEN UNCHANGED <<wanted, pc, tsvars, privars, l_wchan, pri>>
          ELSE /\ wanted' = [wanted EXCEPT ![x] = queue[t]["writer"] # <<>>]
               /\ turnstile_wakeup(l, x, "reader", Len(r))
  /\ UNCHANGED <<ctl, walk>>

(* turnstile_changepri() and sched_changepri(): no further than the queue  *)
(* ("XXX priority inheritance").                                           *)
ChangePri(l) ==
  /\ Changes
  /\ CanLock(None, MutexOf(l))
  /\ pri' \in {[pri EXCEPT ![l] = p] : p \in Prio}
  /\ queue' = IF l_wchan[l] = None THEN queue
       ELSE [queue EXCEPT ![l_ts[l]][mode[l]] =
              LET s == Without(@, l)
                  e(k) == IF l_inheritedprio[k] > pri'[k]
                          THEN l_inheritedprio[k] ELSE pri'[k]
                  n == Cardinality({i \in 1 .. Len(s) : e(s[i]) >= e(l)})
              IN  IF e(l) = lwp_eprio(l) THEN @
                  ELSE SubSeq(s, 1, n) \o <<l>> \o SubSeq(s, n + 1, Len(s))]
  /\ UNCHANGED <<locks, act, free, inheritor, teprio, l_ts, privars, l_wchan,
                 pc, ctl, walk>>

-----------------------------------------------------------------------------
Init ==
  /\ owner = [x \in Lock |-> None] /\ readers = [x \in Lock |-> {}]
  /\ wanted = [x \in Lock |-> FALSE]
  /\ act = [x \in Lock |-> None]
  /\ free = [t \in Ts |-> <<>>]
  /\ queue = [t \in Ts |-> [q \in Q |-> <<>>]]
  /\ inheritor = [t \in Ts |-> None] /\ teprio = [t \in Ts |-> 0]
  /\ l_ts = [l \in Lwp |-> l]
  /\ l_pi_lenders = [l \in Lwp |-> {}]
  /\ l_inheritedprio = [l \in Lwp |-> 0]
  /\ l_wchan = [l \in Lwp |-> None]
  /\ pri \in [Lwp -> Prio]
  /\ pc = [l \in Lwp |-> "run"]
  /\ want = [l \in Lwp |-> None] /\ mode = [l \in Lwp |-> "writer"]
  /\ at = [l \in Lwp |-> None] /\ prio = [l \in Lwp |-> 0]

Next ==
  \E l \in Lwp :
    \/ Call(l) \/ EnterGot(l) \/ EnterBlock(l) \/ Resume(l)
    \/ WalkStop(l) \/ WalkLend(l) \/ WalkRestart(l) \/ WalkAgain(l)
    \/ ExitAlone(l) \/ MutexExit(l) \/ RWExit(l) \/ Downgrade(l)
    \/ ChangePri(l)

Spec == Init /\ [][Next]_vars

-----------------------------------------------------------------------------
(***************************************************************************)
(* Properties.                                                             *)
(***************************************************************************)

Active == {t \in Ts : \E x \in Lock : act[x] = t}
Members(s) == {s[i] : i \in 1 .. Len(s)}
Sleepers(t) == Members(queue[t]["reader"]) \cup Members(queue[t]["writer"])

(***************************************************************************)
(* However turnstiles change hands in turnstile_block() and                *)
(* turnstile_remove(), none is lost or shared: an LWP that does not sleep  *)
(* has one to itself, and a lock's turnstile with its free list has as     *)
(* many as the lock has waiters, who are the LWPs that sleep on it.        *)
(***************************************************************************)
OwnTurnstile ==
  /\ \A l, k \in Lwp :
       l # k /\ l_wchan[l] = None => l_ts[l] # l_ts[k] /\ free[l_ts[l]] = <<>>
  /\ \A x \in Lock : act[x] # None =>
       /\ Sleepers(act[x]) = {l \in Lwp : l_wchan[l] = x}
       /\ Len(free[act[x]]) + 1 = Cardinality(Sleepers(act[x]))
       /\ Cardinality(Members(free[act[x]])) = Len(free[act[x]])
       /\ \A l \in Lwp : /\ (l_wchan[l] = x) <=> (l_ts[l] = act[x])
                         /\ l_ts[l] \notin Members(free[act[x]])
  /\ \A x \in Lock : act[x] = None => \A l \in Lwp : l_wchan[l] # x

(***************************************************************************)
(* An LWP runs with a lent priority exactly as long as it holds a lock     *)
(* whose waiters lent it, and with the highest of them: what               *)
(* turnstile_block() lends turnstile_wakeup() takes back, although they    *)
(* are run by different LWPs, on a turnstile that by then may have been    *)
(* contributed by a third, and locks change owner with a hand-over or a    *)
(* downgrade in between.  The assertions in both functions follow.         *)
(***************************************************************************)
LendersExact ==
  \A l \in Lwp :
    /\ l_pi_lenders[l] = {t \in Active : inheritor[t] = l}
    /\ l_inheritedprio[l] = Inherited(l_pi_lenders[l])
    /\ \A x \in Lock :
         act[x] # None /\ inheritor[act[x]] = l => Holds(l, x)

(***************************************************************************)
(* sleepq_insert() keeps the highest priority first, and so do             *)
(* sleepq_lendpri() and sleepq_changepri() when a sleeper's priority       *)
(* changes: the writer to whom rw_vector_exit() hands a lock is one with   *)
(* the highest priority.                                                   *)
(***************************************************************************)
SortedQueues ==
  \A t \in Ts, q \in Q : \A i, j \in 1 .. Len(queue[t][q]) :
    i < j => lwp_eprio(queue[t][q][i]) >= lwp_eprio(queue[t][q][j])

(***************************************************************************)
(* turnstile_block(): "Lend our priority to lwps on the blocking chain."   *)
(* While priorities stay as they are and nobody walks along a chain, the   *)
(* owner of a mutex runs with at least the priority of every waiter.       *)
(***************************************************************************)
PriorityLent ==
  (\A l \in Lwp : pc[l] \notin {"walk", "restart"}) =>
    \A x \in Mutexes, l \in Lwp :
      l_wchan[l] = x => lwp_eprio(owner[x]) >= lwp_eprio(l)

=============================================================================
