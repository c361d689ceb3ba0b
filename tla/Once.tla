-------------------------------- MODULE Once --------------------------------
(***************************************************************************)
(* RUN_ONCE() (sys/sys/once.h) and _run_once() (sys/kern/subr_once.c): an  *)
(* initialisation function is run by the first caller, and the others wait *)
(* for it.  The fast path of the macro reads two fields without a lock.    *)
(* oncemtx and oncecv serve every once_t of the kernel.                    *)
(*                                                                         *)
(* Every section under oncemtx is one action.                              *)
(*                                                                         *)
(* A definition marked "Slip" is the one that follows it with a plausible  *)
(* mistake: the properties are shown to reject it.                         *)
(***************************************************************************)
EXTENDS Naturals

CONSTANTS
    LWP,      \* the callers
    Control,  \* the once_t structures
    Error,    \* what the functions may return
    NoError   \* o_error before the function has returned

OnceAssumption == NoError \notin Error

VARIABLES
    o_status,  \* per once_t, "VIRGIN", "RUNNING" or "DONE"
    o_error,   \* per once_t, what its function returned
    runs,      \* per once_t, how often its function has been called
    pc,        \* where each LWP is
    once,      \* the once_t it uses
    got        \* what RUN_ONCE() returned to it

vars == <<o_status, o_error, runs, pc, once, got>>

Goto(l, p) == pc' = [pc EXCEPT ![l] = p]

-----------------------------------------------------------------------------
\* Slip: a function that is running is taken to be done.
FastPathRunning(o) == o_status[o] # "VIRGIN"

\* RUN_ONCE() reads o_status without the mutex.
FastPath(o) == o_status[o] = "DONE"

RunOnce(l, o) ==
    /\ pc[l] \in {"idle", "returned"}
    /\ once' = [once EXCEPT ![l] = o]
    /\ Goto(l, IF FastPath(o) THEN "return" ELSE "enter")
    /\ UNCHANGED <<o_status, o_error, runs, got>>

\* Slip: the mutex is left between the test and the assignment.
FirstUnlocked(l) ==
    \/ /\ pc[l] = "enter"
       /\ o_status[once[l]] = "VIRGIN"
       /\ Goto(l, "first")
       /\ UNCHANGED <<o_status, o_error, runs, once, got>>
    \/ /\ pc[l] = "first"
       /\ o_status' = [o_status EXCEPT ![once[l]] = "RUNNING"]
       /\ runs' = [runs EXCEPT ![once[l]] = @ + 1]
       /\ Goto(l, "fn")
       /\ UNCHANGED <<o_error, once, got>>

\* _run_once(): the first caller leaves the mutex to run the function ...
First(l) ==
    /\ pc[l] = "enter"
    /\ o_status[once[l]] = "VIRGIN"
    /\ o_status' = [o_status EXCEPT ![once[l]] = "RUNNING"]
    /\ runs' = [runs EXCEPT ![once[l]] = @ + 1]
    /\ Goto(l, "fn")
    /\ UNCHANGED <<o_error, once, got>>

\* ... which returns ...
FnReturns(l) ==
    /\ pc[l] = "fn"
    /\ \E e \in Error : o_error' = [o_error EXCEPT ![once[l]] = e]
    /\ Goto(l, "finish")
    /\ UNCHANGED <<o_status, runs, once, got>>

\* Slip: cv_signal(&oncecv)
FinishSignal(l) ==
    /\ pc[l] = "finish"
    /\ o_status' = [o_status EXCEPT ![once[l]] = "DONE"]
    /\ \/ /\ \A x \in LWP : pc[x] # "wait"
          /\ Goto(l, "return")
       \/ \E x \in LWP :
             /\ pc[x] = "wait"
             /\ pc' = [pc EXCEPT ![l] = "return", ![x] = "enter"]
    /\ UNCHANGED <<o_error, runs, once, got>>

\* ... and everybody is woken, whichever once_t they wait for.
Finish(l) ==
    /\ pc[l] = "finish"
    /\ o_status' = [o_status EXCEPT ![once[l]] = "DONE"]
    /\ pc' = [x \in LWP |-> IF x = l THEN "return"
                            ELSE IF pc[x] = "wait" THEN "enter" ELSE pc[x]]
    /\ UNCHANGED <<o_error, runs, once, got>>

\* The others wait while the function runs.
Wait(l) ==
    /\ pc[l] = "enter"
    /\ o_status[once[l]] = "RUNNING"
    /\ Goto(l, "wait")
    /\ UNCHANGED <<o_status, o_error, runs, once, got>>

WaitOver(l) ==
    /\ pc[l] = "enter"
    /\ o_status[once[l]] = "DONE"
    /\ Goto(l, "return")
    /\ UNCHANGED <<o_status, o_error, runs, once, got>>

\* o_error is read after the mutex has been left, or without it.
Return(l) ==
    /\ pc[l] = "return"
    /\ got' = [got EXCEPT ![l] = o_error[once[l]]]
    /\ Goto(l, "returned")
    /\ UNCHANGED <<o_status, o_error, runs, once>>

-----------------------------------------------------------------------------
Init ==
    /\ o_status = [o \in Control |-> "VIRGIN"]
    /\ o_error = [o \in Control |-> NoError]
    /\ runs = [o \in Control |-> 0]
    /\ pc = [l \in LWP |-> "idle"]
    /\ once \in [LWP -> Control]
    /\ got = [l \in LWP |-> NoError]

Runs(l) == First(l) \/ FnReturns(l) \/ Finish(l) \/ Wait(l) \/ WaitOver(l) \/ Return(l)

Next == \E l \in LWP : Runs(l) \/ \E o \in Control : RunOnce(l, o)

Spec == Init /\ [][Next]_vars

(***************************************************************************)
(* LWPs that can run do, and the functions return.                         *)
(***************************************************************************)
FairSpec == Spec /\ \A l \in LWP : WF_vars(Runs(l))

-----------------------------------------------------------------------------
\* The type invariant.
TypeOK ==
    /\ o_status \in [Control -> {"VIRGIN", "RUNNING", "DONE"}]
    /\ o_error \in [Control -> Error \cup {NoError}]
    /\ runs \in [Control -> Nat]
    /\ pc \in [LWP -> {"idle", "enter", "fn", "finish", "wait", "return",
                       "returned"}]
    /\ once \in [LWP -> Control]
    /\ got \in [LWP -> Error \cup {NoError}]

(***************************************************************************)
(* A function is called once, however many callers race, and nobody gets   *)
(* past RUN_ONCE() before it has returned or with another result than its. *)
(***************************************************************************)
ExactlyOnce ==
    /\ \A o \in Control : runs[o] <= 1
    /\ \A l \in LWP : pc[l] = "returned" =>
          /\ runs[once[l]] = 1
          /\ o_status[once[l]] = "DONE"
          /\ got[l] = o_error[once[l]] /\ got[l] # NoError

(***************************************************************************)
(* Every caller returns, also when callers of another once_t are woken by  *)
(* the same condition variable.                                            *)
(***************************************************************************)
CallerReturns(l) == pc[l] = "enter" ~> pc[l] = "returned"

CallersReturn == \A l \in LWP : CallerReturns(l)

-----------------------------------------------------------------------------
(***************************************************************************)
(* The inductive invariant: who runs a function is the only one, and the   *)
(* status says how far it is.                                              *)
(***************************************************************************)
OnceInv ==
    /\ TypeOK
    /\ \A o \in Control :
          /\ runs[o] = IF o_status[o] = "VIRGIN" THEN 0 ELSE 1
          /\ o_status[o] = "DONE" => o_error[o] # NoError
    /\ \A l \in LWP :
          /\ pc[l] \in {"fn", "finish"} => o_status[once[l]] = "RUNNING"
          /\ pc[l] = "finish" => o_error[once[l]] # NoError
          /\ pc[l] \in {"return", "returned"} => o_status[once[l]] = "DONE"
          /\ pc[l] = "wait" => o_status[once[l]] = "RUNNING"
          /\ pc[l] = "returned" => got[l] = o_error[once[l]]
    /\ \A l, x \in LWP :
          pc[l] \in {"fn", "finish"} /\ pc[x] \in {"fn", "finish"}
             /\ once[l] = once[x] => l = x
=============================================================================
