------------------------------- MODULE Callout -------------------------------
(***************************************************************************)
(* One callout of sys/kern/kern_timeout.c: scheduled, stopped and halted   *)
(* by LWPs on any CPU, and by its own handler, while the softclock threads *)
(* of the CPUs take it up and run it.  Every section under the callout's   *)
(* lock (the lock of its CPU) is one action.  When a callout is due is the *)
(* matter of CalloutWheel; here a pending callout may be taken up at any   *)
(* time.                                                                   *)
(*                                                                         *)
(* A definition marked "Slip" is the one that follows it with a plausible  *)
(* mistake: the properties are shown to reject it.                         *)
(***************************************************************************)
EXTENDS Naturals, FiniteSets

CONSTANTS
    CPU,
    LWP,            \* the LWPs that use the callout
    MaxSchedules    \* bound: how often the callout is scheduled

CalloutAssumption ==
    /\ IsFiniteSet(CPU) /\ IsFiniteSet(LWP)
    /\ MaxSchedules \in Nat

VARIABLES
    bound,      \* CALLOUT_BOUND, given to callout_init(): it keeps its CPU
    pending,    \* CALLOUT_PENDING
    fired,      \* CALLOUT_FIRED
    invoking,   \* CALLOUT_INVOKING
    c_cpu,      \* the CPU whose queue and lock the callout uses
    cc_active,  \* on which CPUs the softclock runs its function
    cc_nwait,   \* per CPU, how many wait for the function to return
    cc_sleepq,  \* per CPU, the LWPs that do
    pc,         \* "idle", "relock", "asleep" or "halted": see Halt
    quiet,      \* nothing has scheduled the callout since the LWP's Halt
    schedules   \* how often the callout has been scheduled

vars == <<bound, pending, fired, invoking, c_cpu, cc_active, cc_nwait,
          cc_sleepq, pc, quiet, schedules>>

-----------------------------------------------------------------------------
\* The CPU the callout is put on when CPU k schedules it: the other CPU's
\* lock is only tried, so that it may also stay where it is.
NewCPU(k) == IF bound THEN {c_cpu} ELSE {c_cpu, k}

\* callout_schedule(), callout_reset(): by an LWP or the handler on CPU k.
\* A pending callout stays on its CPU.
Schedule(k) ==
    /\ schedules < MaxSchedules
    /\ schedules' = schedules + 1
    /\ pending' = TRUE
    /\ fired' = FALSE
    /\ invoking' = FALSE
    /\ c_cpu' \in IF pending THEN {c_cpu} ELSE NewCPU(k)
    /\ quiet' = [l \in LWP |-> FALSE]
    /\ UNCHANGED <<bound, cc_active, cc_nwait, cc_sleepq, pc>>

\* callout_stop(): the function may go on running.
Stop ==
    /\ pending' = FALSE
    /\ fired' = FALSE
    /\ UNCHANGED <<bound, invoking, c_cpu, cc_active, cc_nwait, cc_sleepq, pc,
                   quiet, schedules>>

\* callout_ack(): the handler has seen that it was to run.
Ack ==
    /\ invoking' = FALSE
    /\ UNCHANGED <<bound, pending, fired, c_cpu, cc_active, cc_nwait,
                   cc_sleepq, pc, quiet, schedules>>

\* The loop of callout_halt(): return, or sleep until the function returns.
HaltWait(l) ==
    IF c_cpu \in cc_active
    THEN /\ cc_nwait' = [cc_nwait EXCEPT ![c_cpu] = @ + 1]
         /\ cc_sleepq' = [cc_sleepq EXCEPT ![c_cpu] = @ \cup {l}]
         /\ pc' = [pc EXCEPT ![l] = "asleep"]
    ELSE /\ pc' = [pc EXCEPT ![l] = "halted"]
         /\ UNCHANGED <<cc_nwait, cc_sleepq>>

\* callout_halt(): cancel the callout, and wait if its function runs.  With
\* an interlock to drop, the lock is released first and taken again.
Halt(l) ==
    /\ pc[l] \in {"idle", "halted"}
    /\ pending' = FALSE
    /\ fired' = FALSE
    /\ quiet' = [quiet EXCEPT ![l] = TRUE]
    /\ \/ HaltWait(l)
       \/ /\ c_cpu \in cc_active
          /\ pc' = [pc EXCEPT ![l] = "relock"]
          /\ UNCHANGED <<cc_nwait, cc_sleepq>>
    /\ UNCHANGED <<bound, invoking, c_cpu, cc_active, schedules>>

\* Slip: the function is taken to have returned after the sleep.
HaltOnce(l) ==
    /\ pc[l] = "relock"
    /\ pc' = [pc EXCEPT ![l] = "halted"]
    /\ UNCHANGED <<cc_nwait, cc_sleepq>>
    /\ UNCHANGED <<bound, pending, fired, invoking, c_cpu, cc_active, quiet,
                   schedules>>

\* Once more round the loop, with the lock taken again.
HaltAgain(l) ==
    /\ pc[l] = "relock"
    /\ HaltWait(l)
    /\ UNCHANGED <<bound, pending, fired, invoking, c_cpu, cc_active, quiet,
                   schedules>>

-----------------------------------------------------------------------------
\* callout_softclock() on CPU k takes the callout off its queue.
SoftclockTake(k) ==
    /\ k \notin cc_active
    /\ pending /\ c_cpu = k
    /\ pending' = FALSE
    /\ fired' = TRUE
    /\ invoking' = TRUE
    /\ cc_active' = cc_active \cup {k}
    /\ UNCHANGED <<bound, c_cpu, cc_nwait, cc_sleepq, pc, quiet, schedules>>

\* Slip: only one of the waiting LWPs is woken.
SoftclockWakeOne(k) ==
    /\ k \in cc_active
    /\ cc_active' = cc_active \ {k}
    /\ cc_nwait' = [cc_nwait EXCEPT ![k] = 0]
    /\ \E S \in SUBSET cc_sleepq[k] :
          /\ Cardinality(S) = IF cc_nwait[k] = 0 THEN 0 ELSE 1
          /\ cc_sleepq' = [cc_sleepq EXCEPT ![k] = @ \ S]
          /\ pc' = [l \in LWP |-> IF l \in S THEN "relock" ELSE pc[l]]
    /\ UNCHANGED <<bound, pending, fired, invoking, c_cpu, quiet, schedules>>

\* The function has returned: cc_nwait LWPs are woken.
SoftclockDone(k) ==
    /\ k \in cc_active
    /\ cc_active' = cc_active \ {k}
    /\ cc_nwait' = [cc_nwait EXCEPT ![k] = 0]
    /\ \E S \in SUBSET cc_sleepq[k] :
          /\ Cardinality(S) = cc_nwait[k]
          /\ cc_sleepq' = [cc_sleepq EXCEPT ![k] = @ \ S]
          /\ pc' = [l \in LWP |-> IF l \in S THEN "relock" ELSE pc[l]]
    /\ UNCHANGED <<bound, pending, fired, invoking, c_cpu, quiet, schedules>>

-----------------------------------------------------------------------------
Init ==
    /\ bound \in BOOLEAN
    /\ pending = FALSE /\ fired = FALSE /\ invoking = FALSE
    /\ c_cpu \in CPU
    /\ cc_active = {}
    /\ cc_nwait = [k \in CPU |-> 0]
    /\ cc_sleepq = [k \in CPU |-> {}]
    /\ pc = [l \in LWP |-> "idle"]
    /\ quiet = [l \in LWP |-> FALSE]
    /\ schedules = 0

\* Some LWP that is not inside callout_halt() makes the call, or the handler.
SomeCaller ==
    \/ cc_active # {}
    \/ \E l \in LWP : pc[l] \in {"idle", "halted"}

Next ==
    \/ SomeCaller /\ Stop
    \/ \E k \in CPU : SomeCaller /\ Schedule(k)
    \/ cc_active # {} /\ Ack
    \/ \E l \in LWP : Halt(l) \/ HaltAgain(l)
    \/ \E k \in CPU : SoftclockTake(k) \/ SoftclockDone(k)

Spec == Init /\ [][Next]_vars

(***************************************************************************)
(* A function that is running returns, and an LWP that can run does.       *)
(***************************************************************************)
FairSpec ==
    /\ Spec
    /\ \A l \in LWP : WF_vars(HaltAgain(l))
    /\ \A k \in CPU : WF_vars(SoftclockDone(k))

-----------------------------------------------------------------------------
\* The type invariant.
TypeOK ==
    /\ bound \in BOOLEAN
    /\ pending \in BOOLEAN /\ fired \in BOOLEAN /\ invoking \in BOOLEAN
    /\ c_cpu \in CPU
    /\ cc_active \in SUBSET CPU
    /\ cc_nwait \in [CPU -> 0..Cardinality(LWP)]
    /\ cc_sleepq \in [CPU -> SUBSET LWP]
    /\ pc \in [LWP -> {"idle", "relock", "asleep", "halted"}]
    /\ quiet \in [LWP -> BOOLEAN]
    /\ schedules \in 0..MaxSchedules

(***************************************************************************)
(* An LWP sleeps in callout_halt() only on a CPU whose softclock runs a    *)
(* function, and is counted there, so that it is woken.                    *)
(***************************************************************************)
HaltWaiterCounted ==
    /\ TypeOK
    /\ \A k \in CPU :
          /\ cc_nwait[k] = Cardinality(cc_sleepq[k])
          /\ cc_sleepq[k] # {} => k \in cc_active
    /\ \A l \in LWP : pc[l] = "asleep" => \E k \in CPU : l \in cc_sleepq[k]

(***************************************************************************)
(* callout_halt() cancels the callout and waits for it: if nothing has     *)
(* scheduled the callout since the call, then on return it is not pending  *)
(* and its function does not run on any CPU.  "Cancel a pending callout.   *)
(* If in-flight, block until it completes."                                *)
(***************************************************************************)
HaltQuiesces ==
    \A l \in LWP : pc[l] = "halted" /\ quiet[l] => ~pending /\ cc_active = {}

\* What callout_halt() promises; the last of it only for a callout that
\* stays on its CPU.
CalloutSafe == HaltWaiterCounted /\ (bound => HaltQuiesces)

(***************************************************************************)
(* What is inductive: an LWP is on one sleep queue at most, and asleep     *)
(* then; while the callout is quiet nothing puts it back on a queue; and   *)
(* the function does not run on the callout's CPU behind the back of an    *)
(* LWP that has halted it.                                                 *)
(***************************************************************************)
QueueInv ==
    /\ \A k \in CPU : \A l \in cc_sleepq[k] : pc[l] = "asleep"
    /\ \A j, k \in CPU : \A l \in cc_sleepq[j] : l \in cc_sleepq[k] => j = k

QuietInv ==
    /\ \A l \in LWP : quiet[l] => ~pending
    /\ \A l \in LWP : pc[l] = "halted" /\ quiet[l] => c_cpu \notin cc_active
    /\ bound => cc_active \subseteq {c_cpu}

CalloutInv == HaltWaiterCounted /\ QueueInv /\ QuietInv

(***************************************************************************)
(* callout_halt() returns, as long as the callout is not scheduled for     *)
(* ever.                                                                   *)
(***************************************************************************)
HaltReturnsTo(l) == pc[l] = "asleep" ~> pc[l] = "halted"

HaltReturns == \A l \in LWP : HaltReturnsTo(l)
=============================================================================
