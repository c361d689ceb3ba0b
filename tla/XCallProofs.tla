----------------------------- MODULE XCallProofs -----------------------------
(***************************************************************************)
(* Proofs about cross calls, for any finite sets of CPUs and LWPs and any  *)
(* number of calls: xc_lowpri() and xc_thread() lose neither a call nor a  *)
(* wakeup.                                                                 *)
(***************************************************************************)
EXTENDS XCall, FiniteSetTheorems, TLAPS

USE XCallAssumption

\* The sets of CPUs that the counters count are finite.
LEMMA Finite ==
    ASSUME NEW S \in SUBSET CPU
    PROVE  /\ IsFiniteSet(S)
           /\ Cardinality(S) \in Nat
           /\ Cardinality(S) = 0 <=> S = {}
BY FS_Subset, FS_CardinalityType, FS_EmptySet

\* One CPU more or less is counted as one.
LEMMA OneMore ==
    ASSUME NEW S \in SUBSET CPU, NEW c \in CPU
    PROVE  /\ c \notin S => Cardinality(S \cup {c}) = Cardinality(S) + 1
           /\ c \in S => Cardinality(S \ {c}) = Cardinality(S) - 1
BY Finite, FS_AddElement, FS_RemoveElement

\* A slot that is taken has a CPU that is to take it up; it is not asleep.
LEMMA SlotBusyHas ==
    ASSUME XCallInv
    PROVE  /\ SlotBusy => \E c \in CPU : pending[c] /\ thread[c] # "wait"
           /\ ~SlotBusy => Pending = {}
<1>1. Pending \in SUBSET CPU /\ xc_headp \in Nat /\ xc_tailp \in Nat
    BY DEF Pending, XCallInv, TypeOK
<1>2. Cardinality(Pending) \in Nat
      /\ (Cardinality(Pending) = 0 <=> Pending = {})
    BY <1>1, Finite
<1>3. SlotBusy <=> Pending # {}
    BY <1>1, <1>2 DEF SlotBusy, XCallInv, CountInv
<1> QED
    BY <1>3 DEF Pending, XCallInv, ThreadInv

-----------------------------------------------------------------------------
(* The invariant holds initially, and every step preserves it. *)

LEMMA InitXCall == Init => XCallInv
<1> SUFFICES ASSUME Init PROVE XCallInv
    OBVIOUS
<1>1. TypeOK
    BY DEF Init, TypeOK
<1>2. Pending = {} /\ Running = {}
    BY DEF Init, Pending, Running
<1>3. CountInv
    BY <1>2, FS_EmptySet DEF Init, CountInv
<1>4. ThreadInv /\ CallerInv
    BY DEF Init, ThreadInv, CallerInv
<1>5. KeptInv /\ BusyWaiterHasWaker
    BY DEF Init, KeptInv, Posted, BusyWaiterHasWaker
<1> QED
    BY <1>1, <1>3, <1>4, <1>5 DEF XCallInv

\* A new call has a number of its own, and is not posted yet.
LEMMA CallXCall ==
    ASSUME XCallInv, NEW l \in LWP, Call(l)
    PROVE  XCallInv'
<1> USE DEF XCallInv, TypeOK
<1>1. TypeOK'
  <2>1. calls + 1 \in 0 .. MaxCalls
      BY DEF Call
  <2>2. call' \in [LWP -> 0 .. MaxCalls]
      BY <2>1 DEF Call
  <2> QED
      BY <2>1, <2>2 DEF Call
<1>2. CountInv'
    BY DEF Call, CountInv, Pending, Running
<1>3. ThreadInv' /\ CallerInv'
    BY DEF Call, ThreadInv, CallerInv
<1>4. KeptInv'
    BY DEF Call, KeptInv, Posted
<1>5. BusyWaiterHasWaker'
    BY DEF Call, BusyWaiterHasWaker
<1> QED
    BY <1>1, <1>2, <1>3, <1>4, <1>5

\* The slot is filled only when no CPU has still to take up what is in it.
LEMMA PostXCall ==
    ASSUME XCallInv, NEW l \in LWP, Post(l)
    PROVE  XCallInv'
<1> USE DEF XCallInv, TypeOK
<1>1. target[l] \in SUBSET CPU /\ Cardinality(target[l]) \in Nat
    BY Finite
<1>2. \A c \in CPU : ~pending[c]
    BY SlotBusyHas DEF Post, Pending
<1>3. Pending' = target[l] /\ Running' = Running /\ Pending = {}
    BY <1>1, <1>2 DEF Post, Pending, Running
<1>4. xc_headp' \in Nat /\ xc_headp' >= xc_headp
    BY <1>1 DEF Post
<1>5. TypeOK'
    BY <1>1, <1>4 DEF Post
<1>6. CountInv'
    BY <1>1, <1>3, FS_EmptySet DEF Post, CountInv
<1>7. ThreadInv'
    BY <1>2 DEF Post, ThreadInv, CallerInv
<1>8. CallerInv'
    BY <1>4 DEF Post, CallerInv
<1>9. KeptInv'
    BY <1>2 DEF Post, KeptInv, Posted
<1>10. BusyWaiterHasWaker'
    BY DEF Post, BusyWaiterHasWaker
<1> QED
    BY <1>5, <1>6, <1>7, <1>8, <1>9, <1>10

\* The caller sleeps only while some thread is not idle.
LEMMA SleepXCall ==
    ASSUME XCallInv, NEW l \in LWP, PostWait(l) \/ WaitBusy(l)
    PROVE  XCallInv'
<1> USE DEF XCallInv, TypeOK
<1>1. TypeOK'
    BY DEF PostWait, WaitBusy
<1>2. CountInv'
  <2>1. CASE PostWait(l)
      BY <2>1 DEF PostWait, CountInv, Pending, Running
  <2>2. CASE WaitBusy(l)
      BY <2>2 DEF WaitBusy, CountInv, Pending, Running
  <2> QED
      BY <2>1, <2>2
<1>3. ThreadInv' /\ CallerInv'
    BY DEF PostWait, WaitBusy, ThreadInv, CallerInv
<1>4. KeptInv'
    BY DEF PostWait, WaitBusy, KeptInv, Posted
<1>5. \E c \in CPU : thread[c] # "wait"
  <2>1. CASE PostWait(l)
      BY <2>1, SlotBusyHas DEF PostWait
  <2>2. CASE WaitBusy(l)
    <3>1. xc_donep < xc_headp
        BY <2>2 DEF WaitBusy, CallerInv
    <3>2. Pending \in SUBSET CPU /\ Running \in SUBSET CPU
        BY DEF Pending, Running
    <3>3. Pending # {} \/ Running # {}
        BY <3>1, <3>2, Finite DEF CountInv
    <3> QED
        BY <3>3 DEF Pending, Running, ThreadInv
  <2> QED
      BY <2>1, <2>2
<1>6. BusyWaiterHasWaker'
    BY <1>5 DEF PostWait, WaitBusy, BusyWaiterHasWaker
<1> QED
    BY <1>1, <1>2, <1>3, <1>4, <1>6

\* xc_wait() ends, and the caller goes on.
LEMMA ReturnXCall ==
    ASSUME XCallInv, NEW l \in LWP, WaitDone(l) \/ Return(l)
    PROVE  XCallInv'
<1> USE DEF XCallInv, TypeOK
<1>1. TypeOK'
    BY DEF WaitDone, Return
<1>2. CountInv'
  <2>1. CASE WaitDone(l)
      BY <2>1 DEF WaitDone, CountInv, Pending, Running
  <2>2. CASE Return(l)
      BY <2>2 DEF Return, CountInv, Pending, Running
  <2> QED
      BY <2>1, <2>2
<1>3. ThreadInv' /\ CallerInv'
    BY DEF WaitDone, Return, ThreadInv, CallerInv
<1>4. KeptInv'
    BY DEF WaitDone, Return, KeptInv, Posted
<1>5. BusyWaiterHasWaker'
    BY DEF WaitDone, Return, BusyWaiterHasWaker
<1> QED
    BY <1>1, <1>2, <1>3, <1>4, <1>5

\* A thread becomes idle: it has woken everybody, or another is not idle.
LEMMA ThreadIdleXCall ==
    ASSUME XCallInv, NEW c \in CPU, ThreadIdle(c)
    PROVE  XCallInv'
<1> USE DEF XCallInv, TypeOK
<1>1. \A l \in LWP :
         /\ pc'[l] = pc[l] \/ (pc[l] = "lowpri_busy" /\ pc'[l] = "lowpri")
               \/ (pc[l] = "wait_busy" /\ pc'[l] = "posted")
         /\ ~SlotBusy => pc'[l] \notin {"lowpri_busy", "wait_busy"}
    BY DEF ThreadIdle, WakeBusy
<1>2. TypeOK'
  <2>1. pc' \in [LWP -> {"idle", "lowpri", "lowpri_busy", "posted",
                         "wait_busy", "done"}]
      BY DEF ThreadIdle, WakeBusy
  <2> QED
      BY <2>1 DEF ThreadIdle
<1>3. Pending' = Pending /\ Running' = Running
    BY DEF ThreadIdle, Pending, Running
<1>4. CountInv'
    BY <1>3 DEF ThreadIdle, CountInv
<1>5. ThreadInv'
    BY DEF ThreadIdle, ThreadInv
<1>6. CallerInv'
    BY <1>1 DEF ThreadIdle, CallerInv
<1>7. KeptInv'
    BY <1>1 DEF ThreadIdle, KeptInv, Posted
<1>8. BusyWaiterHasWaker'
  <2>1. CASE ~SlotBusy
      BY <1>1, <2>1 DEF BusyWaiterHasWaker
  <2>2. CASE SlotBusy
    <3>1. PICK d \in CPU : pending[d] /\ thread[d] # "wait"
        BY <2>2, SlotBusyHas
    <3>2. d # c /\ thread'[d] # "wait"
        BY <3>1 DEF ThreadIdle
    <3> QED
        BY <3>2 DEF BusyWaiterHasWaker
  <2> QED
      BY <2>1, <2>2
<1> QED
    BY <1>2, <1>4, <1>5, <1>6, <1>7, <1>8

\* A thread takes up the call in the slot.
LEMMA ThreadTakeXCall ==
    ASSUME XCallInv, NEW c \in CPU, ThreadTake(c)
    PROVE  XCallInv'
<1> USE DEF XCallInv, TypeOK, lwpvars
<1>1. TypeOK'
    BY DEF ThreadTake
<1>2. Pending' = Pending \ {c} /\ Running' = Running \cup {c}
    BY DEF ThreadTake, Pending, Running
<1>3. /\ Pending \in SUBSET CPU /\ c \in Pending
      /\ Running \in SUBSET CPU /\ c \notin Running
    BY DEF ThreadTake, Pending, Running
<1>4. /\ Cardinality(Pending') = Cardinality(Pending) - 1
      /\ Cardinality(Running') = Cardinality(Running) + 1
      /\ Cardinality(Pending) \in Nat /\ Cardinality(Running) \in Nat
    BY <1>2, <1>3, OneMore, Finite
<1>5. CountInv'
    BY <1>4 DEF ThreadTake, CountInv
<1>6. ThreadInv' /\ CallerInv'
    BY DEF ThreadTake, ThreadInv, CallerInv
<1>7. KeptInv'
  <2>1. func[c] = 0 /\ func'[c] = xc_func
        /\ \A d \in CPU \ {c} : func'[d] = func[d] /\ pending'[d] = pending[d]
      BY DEF ThreadTake, ThreadInv
  <2>2. ASSUME NEW l \in LWP, Posted(l)' PROVE Posted(l) /\ call[l] # 0
      BY <2>2 DEF ThreadTake, Posted, CallerInv
  <2> QED
      BY <2>1, <2>2 DEF ThreadTake, KeptInv
<1>8. BusyWaiterHasWaker'
    BY DEF ThreadTake, BusyWaiterHasWaker
<1> QED
    BY <1>1, <1>5, <1>6, <1>7, <1>8

\* The function returns: the execution is finished, and is counted.
LEMMA ThreadDoneXCall ==
    ASSUME XCallInv, NEW c \in CPU, ThreadDone(c)
    PROVE  XCallInv'
<1> USE DEF XCallInv, TypeOK, lwpvars
<1>0. func[c] \in 1 .. MaxCalls
    BY DEF ThreadDone, ThreadInv
<1>1. TypeOK'
    BY <1>0 DEF ThreadDone
<1>2. Pending' = Pending /\ Running' = Running \ {c}
    BY DEF ThreadDone, Pending, Running
<1>3. Running \in SUBSET CPU /\ c \in Running
    BY DEF ThreadDone, Running
<1>4. /\ Cardinality(Running') = Cardinality(Running) - 1
      /\ Cardinality(Running) \in Nat
    BY <1>2, <1>3, OneMore, Finite
<1>5. CountInv'
    BY <1>2, <1>4 DEF ThreadDone, CountInv
<1>6. ThreadInv' /\ CallerInv'
    BY DEF ThreadDone, ThreadInv, CallerInv
<1>7. KeptInv'
    BY DEF ThreadDone, KeptInv, Posted
<1>8. BusyWaiterHasWaker'
    BY DEF ThreadDone, BusyWaiterHasWaker
<1> QED
    BY <1>1, <1>5, <1>6, <1>7, <1>8

LEMMA NextXCall == XCallInv /\ [Next]_vars => XCallInv'
<1> SUFFICES ASSUME XCallInv, [Next]_vars PROVE XCallInv'
    OBVIOUS
<1>1. CASE UNCHANGED vars
    BY <1>1 DEF vars, XCallInv, TypeOK, CountInv, Pending, Running, ThreadInv,
       CallerInv, KeptInv, Posted, BusyWaiterHasWaker
<1>2. ASSUME NEW l \in LWP, Call(l) \/ Calls(l) PROVE XCallInv'
    BY <1>2, CallXCall, PostXCall, SleepXCall, ReturnXCall DEF Calls
<1>3. ASSUME NEW c \in CPU, Thread(c) PROVE XCallInv'
    BY <1>3, ThreadIdleXCall, ThreadTakeXCall, ThreadDoneXCall DEF Thread
<1> QED
    BY <1>1, <1>2, <1>3 DEF Next

-----------------------------------------------------------------------------
(***************************************************************************)
(* The counters of subr_xcall.c count what the CPUs have to take up and    *)
(* what they run, a thread with something to do is not asleep, and tickets *)
(* are never of the future.                                                *)
(***************************************************************************)
THEOREM XCallInvariance == Spec => []XCallInv
BY InitXCall, NextXCall, PTL DEF Spec

(***************************************************************************)
(* xc_lowpri() never overwrites a call that a CPU has still to take up,    *)
(* and nobody sleeps on xc_busy with all threads idle.                     *)
(***************************************************************************)
THEOREM CallsAreKept == Spec => []NoCallLost
<1>1. XCallInv => NoCallLost
  <2> SUFFICES ASSUME XCallInv PROVE NoCallLost
      OBVIOUS
  <2>1. Cardinality(Pending) \in Nat /\ Cardinality(Running) \in Nat
      BY Finite DEF Pending, Running
  <2>2. /\ xc_headp - xc_tailp = Cardinality(Pending)
        /\ xc_tailp - xc_donep = Cardinality(Running)
      BY <2>1 DEF XCallInv, CountInv, TypeOK
  <2> QED
      BY <2>2 DEF NoCallLost, EveryCallKept, XCallInv, KeptInv, Pending,
         Running
<1> QED
    BY <1>1, XCallInvariance, PTL
=============================================================================
