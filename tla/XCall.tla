-------------------------------- MODULE XCall --------------------------------
(***************************************************************************)
(* Cross calls (sys/kern/subr_xcall.c): an LWP asks that a function be run *)
(* on one CPU or on all, and may wait until it has been.  There is one     *)
(* slot for the function, and three counters say how many executions have  *)
(* been asked for, taken up and finished.                                  *)
(*                                                                         *)
(* Every section under xc_lock is one action; a cv_wait() ends it, and an  *)
(* LWP or thread that is woken looks again when it gets the lock.  A call  *)
(* is known by the number of the request, so that the model can say which  *)
(* call a CPU runs; calls and ran are not state of the code.               *)
(*                                                                         *)
(* A definition marked "Slip" is the one that follows it with a plausible  *)
(* mistake: the properties are shown to reject it.                         *)
(***************************************************************************)
EXTENDS Naturals, FiniteSets

CONSTANTS
    CPU,       \* the CPUs with SPCF_RUNNING, each with its xc_thread()
    LWP,       \* the LWPs that make cross calls
    MaxCalls   \* bound: calls made in one behaviour

ASSUME XCallAssumption ==
    /\ IsFiniteSet(CPU) /\ CPU # {}
    /\ IsFiniteSet(LWP)
    /\ MaxCalls \in Nat

VARIABLES
    xc_func,   \* the call in the slot
    xc_headp, xc_tailp, xc_donep,
    pending,   \* cpu_xcall_pending of each CPU
    thread,    \* xc_thread() of each CPU: "look", "wait" or "run"
    func,      \* the call it runs, 0 if none
    pc,        \* where each LWP is
    where,     \* the ticket each LWP got from xc_lowpri()
    target,    \* the CPUs the LWP's call is for
    call,      \* the number of the LWP's call
    calls,     \* how many calls have been made
    ran        \* the executions that are finished: <<call, CPU>>

vars == <<xc_func, xc_headp, xc_tailp, xc_donep, pending, thread, func,
          pc, where, target, call, calls, ran>>

lwpvars == <<pc, where, target, call, calls>>

-----------------------------------------------------------------------------
\* xc_broadcast() and xc_unicast(): one CPU, or all of them.
Call(l) ==
    /\ pc[l] = "idle"
    /\ calls < MaxCalls
    /\ calls' = calls + 1
    /\ call' = [call EXCEPT ![l] = calls + 1]
    /\ \E S \in {{c} : c \in CPU} \cup {CPU} :
          target' = [target EXCEPT ![l] = S]
    /\ pc' = [pc EXCEPT ![l] = "lowpri"]
    /\ UNCHANGED <<xc_func, xc_headp, xc_tailp, xc_donep, pending, thread,
                   func, where, ran>>

\* while (xc_headp != xc_tailp) cv_wait(&xc_busy)
SlotBusy == xc_headp # xc_tailp

\* Slip: a new call does not wait for the one before to be taken up.
PostAtOnce(l) ==
    /\ pc[l] = "lowpri"
    /\ xc_func' = call[l]
    /\ xc_headp' = xc_headp + Cardinality(target[l])
    /\ pending' = [c \in CPU |-> pending[c] \/ c \in target[l]]
    /\ thread' = [c \in CPU |-> IF c \in target[l] /\ thread[c] = "wait"
                                THEN "look" ELSE thread[c]]
    /\ where' = [where EXCEPT ![l] = xc_headp']
    /\ pc' = [pc EXCEPT ![l] = "posted"]
    /\ UNCHANGED <<xc_tailp, xc_donep, func, target, call, calls, ran>>

\* xc_lowpri() with the slot free: fill it and signal the threads.
Post(l) ==
    /\ pc[l] = "lowpri"
    /\ ~SlotBusy
    /\ xc_func' = call[l]
    /\ xc_headp' = xc_headp + Cardinality(target[l])
    /\ pending' = [c \in CPU |-> pending[c] \/ c \in target[l]]
    /\ thread' = [c \in CPU |-> IF c \in target[l] /\ thread[c] = "wait"
                                THEN "look" ELSE thread[c]]
    /\ where' = [where EXCEPT ![l] = xc_headp']
    /\ pc' = [pc EXCEPT ![l] = "posted"]
    /\ UNCHANGED <<xc_tailp, xc_donep, func, target, call, calls, ran>>

\* xc_lowpri() with the slot taken: sleep on xc_busy.
PostWait(l) ==
    /\ pc[l] = "lowpri"
    /\ SlotBusy
    /\ pc' = [pc EXCEPT ![l] = "lowpri_busy"]
    /\ UNCHANGED <<xc_func, xc_headp, xc_tailp, xc_donep, pending, thread,
                   func, where, target, call, calls, ran>>

\* xc_wait(): the first, unlocked look or the one under the lock.
WaitDone(l) ==
    /\ pc[l] = "posted"
    /\ xc_donep >= where[l]
    /\ pc' = [pc EXCEPT ![l] = "done"]
    /\ UNCHANGED <<xc_func, xc_headp, xc_tailp, xc_donep, pending, thread,
                   func, where, target, call, calls, ran>>

WaitBusy(l) ==
    /\ pc[l] = "posted"
    /\ xc_donep < where[l]
    /\ pc' = [pc EXCEPT ![l] = "wait_busy"]
    /\ UNCHANGED <<xc_func, xc_headp, xc_tailp, xc_donep, pending, thread,
                   func, where, target, call, calls, ran>>

\* The caller goes on; it may make another call.
Return(l) ==
    /\ pc[l] = "done"
    /\ pc' = [pc EXCEPT ![l] = "idle"]
    /\ UNCHANGED <<xc_func, xc_headp, xc_tailp, xc_donep, pending, thread,
                   func, where, target, call, calls, ran>>

-----------------------------------------------------------------------------
\* Slip: cv_signal(&xc_busy)
WakeOneBusy ==
    LET W == {l \in LWP : pc[l] \in {"lowpri_busy", "wait_busy"}}
    IN  \E l \in IF W = {} THEN LWP ELSE W :
           pc' = [pc EXCEPT ![l] = CASE pc[l] = "lowpri_busy" -> "lowpri"
                                     [] pc[l] = "wait_busy" -> "posted"
                                     [] OTHER -> pc[l]]

\* cv_broadcast(&xc_busy)
WakeBusy ==
    pc' = [l \in LWP |-> CASE pc[l] = "lowpri_busy" -> "lowpri"
                           [] pc[l] = "wait_busy" -> "posted"
                           [] OTHER -> pc[l]]

\* xc_thread() finds no call for its CPU.
ThreadIdle(c) ==
    /\ thread[c] = "look"
    /\ ~pending[c]
    /\ IF ~SlotBusy THEN WakeBusy ELSE UNCHANGED pc
    /\ thread' = [thread EXCEPT ![c] = "wait"]
    /\ UNCHANGED <<xc_func, xc_headp, xc_tailp, xc_donep, pending,
                   func, where, target, call, calls, ran>>

\* It takes the call up and leaves the lock to run the function.
ThreadTake(c) ==
    /\ thread[c] = "look"
    /\ pending[c]
    /\ pending' = [pending EXCEPT ![c] = FALSE]
    /\ thread' = [thread EXCEPT ![c] = "run"]
    /\ func' = [func EXCEPT ![c] = xc_func]
    /\ xc_tailp' = xc_tailp + 1
    /\ UNCHANGED <<xc_func, xc_headp, xc_donep, ran>>
    /\ UNCHANGED lwpvars

\* The function returns.
ThreadDone(c) ==
    /\ thread[c] = "run"
    /\ ran' = ran \cup {<<func[c], c>>}
    /\ func' = [func EXCEPT ![c] = 0]
    /\ xc_donep' = xc_donep + 1
    /\ thread' = [thread EXCEPT ![c] = "look"]
    /\ UNCHANGED <<xc_func, xc_headp, xc_tailp, pending>>
    /\ UNCHANGED lwpvars

-----------------------------------------------------------------------------
Init ==
    /\ xc_func = 0
    /\ xc_headp = 0 /\ xc_tailp = 0 /\ xc_donep = 0
    /\ pending = [c \in CPU |-> FALSE]
    /\ thread = [c \in CPU |-> "look"]
    /\ func = [c \in CPU |-> 0]
    /\ pc = [l \in LWP |-> "idle"]
    /\ where = [l \in LWP |-> 0]
    /\ target = [l \in LWP |-> {}]
    /\ call = [l \in LWP |-> 0]
    /\ calls = 0
    /\ ran = {}

Calls(l) ==
    Post(l) \/ PostWait(l) \/ WaitDone(l) \/ WaitBusy(l) \/ Return(l)

Thread(c) == ThreadIdle(c) \/ ThreadTake(c) \/ ThreadDone(c)

Next ==
    \/ \E l \in LWP : Call(l) \/ Calls(l)
    \/ \E c \in CPU : Thread(c)

Spec == Init /\ [][Next]_vars

(***************************************************************************)
(* LWPs and threads that can run do, and the functions called return.  An  *)
(* LWP gets xc_lock in the end, even if another call is faster each time:  *)
(* strong fairness, for Post() only.                                       *)
(***************************************************************************)
FairSpec ==
    /\ Spec
    /\ \A l \in LWP : WF_vars(Calls(l)) /\ SF_vars(Post(l))
    /\ \A c \in CPU : WF_vars(Thread(c))

-----------------------------------------------------------------------------
TypeOK ==
    /\ xc_func \in 0..MaxCalls
    /\ xc_headp \in Nat /\ xc_tailp \in Nat /\ xc_donep \in Nat
    /\ pending \in [CPU -> BOOLEAN]
    /\ thread \in [CPU -> {"look", "wait", "run"}]
    /\ func \in [CPU -> 0..MaxCalls]
    /\ pc \in [LWP -> {"idle", "lowpri", "lowpri_busy", "posted",
                       "wait_busy", "done"}]
    /\ where \in [LWP -> Nat]
    /\ target \in [LWP -> SUBSET CPU]
    /\ call \in [LWP -> 0..MaxCalls]
    /\ calls \in 0..MaxCalls
    /\ ran \in SUBSET ((1..MaxCalls) \X CPU)

Posted(l) == pc[l] \in {"posted", "wait_busy", "done"}

(***************************************************************************)
(* No call is overwritten in the slot: a CPU that a posted call is for has *)
(* run it, runs it now, or has it in the slot with its flag set; and the   *)
(* counters agree with what the CPUs have to do.                           *)
(***************************************************************************)
EveryCallKept ==
    /\ TypeOK
    /\ \A l \in LWP : Posted(l) =>
          \A c \in target[l] :
             \/ <<call[l], c>> \in ran
             \/ func[c] = call[l]
             \/ pending[c] /\ xc_func = call[l]
    /\ xc_headp - xc_tailp = Cardinality({c \in CPU : pending[c]})
    /\ xc_tailp - xc_donep = Cardinality({c \in CPU : thread[c] = "run"})

(***************************************************************************)
(* An LWP never sleeps on xc_busy with nobody left to wake it: some thread *)
(* is not idle, and will broadcast when it becomes idle.                   *)
(***************************************************************************)
BusyWaiterHasWaker ==
    (\E l \in LWP : pc[l] \in {"lowpri_busy", "wait_busy"}) =>
        \E c \in CPU : thread[c] # "wait"

\* xc_lowpri() and xc_thread() lose neither a call nor a wakeup.
NoCallLost == EveryCallKept /\ BusyWaiterHasWaker

-----------------------------------------------------------------------------
(* The inductive invariant behind NoCallLost, in parts. *)

Pending == {c \in CPU : pending[c]}
Running == {c \in CPU : thread[c] = "run"}

\* The counters say how many CPUs have to take a call up, and how many run
\* one.
CountInv ==
    /\ xc_headp = xc_tailp + Cardinality(Pending)
    /\ xc_tailp = xc_donep + Cardinality(Running)

\* A thread that has something to do does not sleep, and what it does is a
\* call.
ThreadInv ==
    \A c \in CPU :
        /\ pending[c] => thread[c] # "wait" /\ xc_func # 0
        /\ func[c] # 0 <=> thread[c] = "run"

\* An LWP in a call has its number; tickets are of the past.
CallerInv ==
    \A l \in LWP :
        /\ pc[l] # "idle" => call[l] # 0
        /\ where[l] <= xc_headp

\* What the first part of NoCallLost says of the calls.
KeptInv ==
    \A l \in LWP : Posted(l) =>
        \A c \in target[l] :
           \/ <<call[l], c>> \in ran
           \/ func[c] = call[l]
           \/ pending[c] /\ xc_func = call[l]

XCallInv ==
    /\ TypeOK
    /\ CountInv
    /\ ThreadInv /\ CallerInv
    /\ KeptInv /\ BusyWaiterHasWaker

(***************************************************************************)
(* Every call is posted, and every xc_wait() returns.                      *)
(***************************************************************************)
CallsReturn == \A l \in LWP : pc[l] = "lowpri" ~> pc[l] = "done"

(***************************************************************************)
(* When xc_wait() returns the call has been run on every CPU it is for:    *)
(* "Wait for a cross call to complete."                                    *)
(***************************************************************************)
WaitMeansDone ==
    \A l \in LWP : pc[l] = "done" =>
        \A c \in target[l] : <<call[l], c>> \in ran
=============================================================================
